---- MODULE Spec2Model ----
(***************************************************************************)
(* Layered settings merge engine of generate-settings.py.                  *)
(*                                                                         *)
(* JSON values live in a heap of container cells, as Python objects do:    *)
(* a value is a scalar or a reference to a cell, a cell is a list of       *)
(* values or a dict (key/value pairs in insertion order).  The merge       *)
(* functions are transcribed statement by statement over this heap, so     *)
(* that aliasing, in-place updates and insertion order are observable.     *)
(***************************************************************************)
EXTENDS Integers, Sequences, FiniteSets, TLC

VARIABLES heap, call, args, snap, result, pc, cli

vars == <<heap, call, args, snap, result, pc, cli>>

(***************************************************************************)
(* Values.  A scalar carries its Python type and its str() text.           *)
(***************************************************************************)
Null == [t |-> "null", v |-> "None"]

JInt(s) == [t |-> "int", v |-> s]

JStr(s) == [t |-> "str", v |-> s]

JBool(s) == [t |-> "bool", v |-> s]

JFloat(s) == [t |-> "float", v |-> s]

Ref(a) == [t |-> "ref", v |-> a]

\* A tree (a parsed JSON document): containers hold their children directly.
PList(xs) == [t |-> "list", v |-> xs]

PDict(kvs) == [t |-> "dict", v |-> kvs]

IsContainer(x) == x.t \in {"list", "dict"}

(***************************************************************************)
(* Heap primitives: the cells are numbered 1..Len(h).                      *)
(***************************************************************************)
Out(h, v) == [h |-> h, v |-> v]

Alloc(h, cell) == Out(Append(h, cell), Ref(Len(h) + 1))

\* Statement order: r (a heap and a value) is computed before e is.
Then(r, e) == IF Len(r.h) >= 0 THEN e ELSE e

isinstance_dict(h, x) == x.t = "ref" /\ h[x.v].t = "dict"

isinstance_list(h, x) == x.t = "ref" /\ h[x.v].t = "list"

Items(h, x) == h[x.v].v

\* dict lookups: position of a key among the pairs (0 when absent)
KeyPos(kvs, k) ==
    IF \E i \in 1..Len(kvs) : kvs[i][1] = k
    THEN CHOOSE i \in 1..Len(kvs) : kvs[i][1] = k
    ELSE 0

HasKey(h, d, k) == KeyPos(Items(h, d), k) # 0

\* d.get(k): the value, or None
Get(h, d, k) ==
    LET i == KeyPos(Items(h, d), k)
    IN  IF i = 0 THEN Null ELSE Items(h, d)[i][2]

RemoveAt(s, i) == SubSeq(s, 1, i - 1) \o SubSeq(s, i + 1, Len(s))

\* d[k] = x: an existing key keeps its position, a new key goes last
SetItem(h, d, k, x) ==
    LET kvs == Items(h, d)
        i == KeyPos(kvs, k)
        new == IF i = 0 THEN Append(kvs, <<k, x>>)
               ELSE [kvs EXCEPT ![i] = <<k, x>>]
    IN  [h EXCEPT ![d.v] = [t |-> "dict", v |-> new]]

\* A mutant: the key stays.
KeepKey(h, d, k) == h

\* d.pop(k, None)
Pop(h, d, k) ==
    LET kvs == Items(h, d)
        i == KeyPos(kvs, k)
    IN  IF i = 0 THEN h
        ELSE [h EXCEPT ![d.v] = [t |-> "dict", v |-> RemoveAt(kvs, i)]]

(***************************************************************************)
(* json.load: every container of the document becomes a fresh cell.        *)
(***************************************************************************)
RECURSIVE Load(_, _)
RECURSIVE LoadList(_, _, _, _)
RECURSIVE LoadDict(_, _, _, _)

LoadListNext(r, xs, i, acc) == Then(r, LoadList(r.h, xs, i + 1, Append(acc, r.v)))

LoadList(h, xs, i, acc) ==
    IF i > Len(xs) THEN Alloc(h, [t |-> "list", v |-> acc])
    ELSE LoadListNext(Load(h, xs[i]), xs, i, acc)

LoadDictNext(r, kvs, i, acc) ==
    Then(r, LoadDict(r.h, kvs, i + 1, Append(acc, <<kvs[i][1], r.v>>)))

LoadDict(h, kvs, i, acc) ==
    IF i > Len(kvs) THEN Alloc(h, [t |-> "dict", v |-> acc])
    ELSE LoadDictNext(Load(h, kvs[i][2]), kvs, i, acc)

Load(h, tree) ==
    IF tree.t = "list" THEN LoadList(h, tree.v, 1, <<>>)
    ELSE IF tree.t = "dict" THEN LoadDict(h, tree.v, 1, <<>>)
    ELSE Out(h, tree)

\* Load a sequence of documents, one after the other.
RECURSIVE LoadAll(_, _, _, _)
LoadAllNext(r, trees, i, acc) == Then(r, LoadAll(r.h, trees, i + 1, Append(acc, r.v)))

LoadAll(h, trees, i, acc) ==
    IF i > Len(trees) THEN Out(h, acc)
    ELSE LoadAllNext(Load(h, trees[i]), trees, i, acc)

\* The tree a value denotes in a heap.
RECURSIVE Deref(_, _)
Deref(h, x) ==
    IF x.t # "ref" THEN x
    ELSE IF h[x.v].t = "list"
    THEN PList([i \in 1..Len(h[x.v].v) |-> Deref(h, h[x.v].v[i])])
    ELSE PDict([i \in 1..Len(h[x.v].v) |->
                  <<h[x.v].v[i][1], Deref(h, h[x.v].v[i][2])>>])

\* The cells reachable from a value.
RECURSIVE Reach(_, _)
Reach(h, x) ==
    IF x.t # "ref" THEN {}
    ELSE {x.v} \cup
         UNION { Reach(h, IF h[x.v].t = "list" THEN h[x.v].v[i] ELSE h[x.v].v[i][2]) :
                 i \in 1..Len(h[x.v].v) }

(***************************************************************************)
(* Merge engine.  A function that allocates returns the new heap with its  *)
(* value; a loop of the source is a recursive operator over the index,     *)
(* and the body of the loop is an operator of its own.                     *)
(***************************************************************************)
HOOK_MERGE_KEY == "matcher"

\* d[k] = r, where r is the outcome of an allocating expression
Assign(d, k, r) == SetItem(r.h, d, k, r.v)

RECURSIVE _deep_copy(_, _)
RECURSIVE CopyList(_, _, _, _)
RECURSIVE CopyDict(_, _, _, _)

CopyListNext(r, xs, i, acc) == Then(r, CopyList(r.h, xs, i + 1, Append(acc, r.v)))

CopyList(h, xs, i, acc) ==
    IF i > Len(xs) THEN Alloc(h, [t |-> "list", v |-> acc])
    ELSE CopyListNext(_deep_copy(h, xs[i]), xs, i, acc)

\* A mutant: a copy that leaves out the keys whose value is None.
DropNulls(r, kvs, i, acc) ==
    Then(r, CopyDict(r.h, kvs, i + 1,
                     IF r.v = Null THEN acc ELSE Append(acc, <<kvs[i][1], r.v>>)))

CopyDictNext(r, kvs, i, acc) ==
    Then(r, CopyDict(r.h, kvs, i + 1, Append(acc, <<kvs[i][1], r.v>>)))

CopyDict(h, kvs, i, acc) ==
    IF i > Len(kvs) THEN Alloc(h, [t |-> "dict", v |-> acc])
    ELSE CopyDictNext(_deep_copy(h, kvs[i][2]), kvs, i, acc)

\* A mutant: the object itself instead of a copy.
NoCopy(h, obj) == Out(h, obj)

_deep_copy(h, obj) ==
    IF isinstance_dict(h, obj) THEN CopyDict(h, Items(h, obj), 1, <<>>)
    ELSE IF isinstance_list(h, obj) THEN CopyList(h, Items(h, obj), 1, <<>>)
    ELSE Out(h, obj)

_is_object_array(h, arr) ==
    /\ Len(Items(h, arr)) > 0
    /\ \A i \in 1..Len(Items(h, arr)) : isinstance_dict(h, Items(h, arr)[i])

\* Python's repr() of a JSON value: strings are quoted, containers are
\* rendered element by element, a dict in its insertion order.
RECURSIVE repr(_, _)
RECURSIVE ReprList(_, _, _)
RECURSIVE ReprDict(_, _, _)

ReprList(h, xs, i) ==
    IF i > Len(xs) THEN ""
    ELSE (IF i > 1 THEN ", " ELSE "") \o repr(h, xs[i]) \o ReprList(h, xs, i + 1)

ReprDict(h, kvs, i) ==
    IF i > Len(kvs) THEN ""
    ELSE (IF i > 1 THEN ", " ELSE "") \o "'" \o kvs[i][1] \o "': "
         \o repr(h, kvs[i][2]) \o ReprDict(h, kvs, i + 1)

\* A mutant: str() instead of repr(), which drops the quotes of a string.
StrNotRepr(h, x) == IF x.t = "ref" THEN "<object>" ELSE x.v

repr(h, x) ==
    IF x.t = "str" THEN "'" \o x.v \o "'"
    ELSE IF x.t # "ref" THEN x.v
    ELSE IF h[x.v].t = "list" THEN "[" \o ReprList(h, Items(h, x), 1) \o "]"
    ELSE "{" \o ReprDict(h, Items(h, x), 1) \o "}"

\* A mutant: every item is kept.
KeepAll(st, item, item_key) ==
    [seen |-> st.seen \cup {item_key}, merged |-> Append(st.merged, item)]

\* lines 351-354: an item is kept when its repr has not been seen
DedupItem(st, item, item_key) ==
    IF item_key \notin st.seen
    THEN [seen |-> st.seen \cup {item_key}, merged |-> Append(st.merged, item)]
    ELSE st

\* lines 347-355: the loop over existing + value
RECURSIVE DedupLoop(_, _, _, _)
DedupLoop(h, items, i, st) ==
    IF i > Len(items) THEN st.merged
    ELSE DedupLoop(h, items, i + 1, DedupItem(st, items[i], repr(h, items[i])))

\* A mutant: the first item whose key is k.
ByKeyFirst(h, items, key, k) ==
    items[CHOOSE i \in 1..Len(items) :
            /\ Get(h, items[i], key) = k
            /\ \A j \in 1..(i - 1) : Get(h, items[j], key) # k]

\* base_by_key[k] after the indexing loop: the last item whose key is k
ByKey(h, items, key, k) ==
    items[CHOOSE i \in 1..Len(items) :
            /\ Get(h, items[i], key) = k
            /\ \A j \in (i + 1)..Len(items) : Get(h, items[j], key) # k]

\* k in base_by_key
InKeys(h, items, key, k) ==
    \E i \in 1..Len(items) : Get(h, items[i], key) = k

RECURSIVE deep_merge(_, _, _)
RECURSIVE DeepMergeLoop(_, _, _, _)
RECURSIVE _deep_merge_hook_entry(_, _, _)
RECURSIVE HookEntryLoop(_, _, _, _)
RECURSIVE _merge_object_arrays(_, _, _, _)
RECURSIVE MergeBaseLoop(_, _, _, _, _)
RECURSIVE AppendOverlayLoop(_, _, _, _)

\* A mutant: the element is put in front of the result.
Prepend(st, k, r) ==
    [h |-> r.h, seen |-> st.seen \cup {k}, res |-> <<r.v>> \o st.res]

\* seen.add(k); result.append(r)
Add(st, k, r) ==
    [h |-> r.h, seen |-> st.seen \cup {k}, res |-> Append(st.res, r.v)]

\* A mutant: a key of base_order is merged every time it occurs.
MergeEveryBaseItem(st, base, overlay, key, k) ==
    Add(st, k,
        IF InKeys(st.h, overlay, key, k)
        THEN _deep_merge_hook_entry(st.h, ByKey(st.h, base, key, k),
                                    ByKey(st.h, overlay, key, k))
        ELSE _deep_copy(st.h, ByKey(st.h, base, key, k)))

\* lines 263-271: one key of base_order
MergeBaseItem(st, base, overlay, key, k) ==
    IF k \in st.seen THEN st
    ELSE Add(st, k,
             IF InKeys(st.h, overlay, key, k)
             THEN _deep_merge_hook_entry(st.h, ByKey(st.h, base, key, k),
                                         ByKey(st.h, overlay, key, k))
             ELSE _deep_copy(st.h, ByKey(st.h, base, key, k)))

\* lines 262-271: walk base_order
MergeBaseLoop(st, base, overlay, key, i) ==
    IF i > Len(base) THEN st
    ELSE MergeBaseLoop(MergeBaseItem(st, base, overlay, key, Get(st.h, base[i], key)),
                       base, overlay, key, i + 1)

\* A mutant: every element of the overlay is appended.
AppendEvery(st, overlay, key, k) ==
    Add(st, k, _deep_copy(st.h, ByKey(st.h, overlay, key, k)))

\* lines 275-277: one key of overlay_order
AppendOverlayItem(st, overlay, key, k) ==
    IF k \notin st.seen
    THEN Add(st, k, _deep_copy(st.h, ByKey(st.h, overlay, key, k)))
    ELSE st

\* lines 274-279: append overlay-only items, return the list
AppendOverlayLoop(st, overlay, key, i) ==
    IF i > Len(overlay) THEN Alloc(st.h, [t |-> "list", v |-> st.res])
    ELSE AppendOverlayLoop(
             AppendOverlayItem(st, overlay, key, Get(st.h, overlay[i], key)),
             overlay, key, i + 1)

\* base and overlay are the element sequences of the two lists
_merge_object_arrays(h, base, overlay, key) ==
    AppendOverlayLoop(
        MergeBaseLoop([h |-> h, seen |-> {}, res |-> <<>>], base, overlay, key, 1),
        overlay, key, 1)

\* A mutant: the overlay's hooks replace the base's.
NoConcat(cur, r) == r

\* line 292: result[key] + _deep_copy(value), a new list
Concat(cur, r) ==
    Alloc(r.h, [t |-> "list", v |-> Items(r.h, cur) \o Items(r.h, r.v)])

\* lines 286-296: one item of the overlay entry; the new heap
HookEntryItem(h, res, key, value) ==
    IF key = "hooks" /\ isinstance_list(h, value)
                     /\ isinstance_list(h, Get(h, res, key))
    THEN Assign(res, key, Concat(Get(h, res, key), _deep_copy(h, value)))
    ELSE IF isinstance_dict(h, value) /\ isinstance_dict(h, Get(h, res, key))
    THEN Assign(res, key, deep_merge(h, Get(h, res, key), value))
    ELSE Assign(res, key, _deep_copy(h, value))

HookEntryLoop(h, res, overlay, i) ==
    IF i > Len(Items(h, overlay)) THEN Out(h, res)
    ELSE HookEntryLoop(
             HookEntryItem(h, res, Items(h, overlay)[i][1], Items(h, overlay)[i][2]),
             res, overlay, i + 1)

HookEntryInto(r, overlay) == HookEntryLoop(r.h, r.v, overlay, 1)

_deep_merge_hook_entry(h, base, overlay) ==
    HookEntryInto(_deep_copy(h, base), overlay)

\* A mutant: null is treated as an ordinary value.
NeverNone(value) == FALSE

\* line 322: a null overlay value deletes the key
IsNone(value) == value.t = "null"

\* lines 340-341: a side that is no object array counts as empty
ObjectView(h, arr) == IF _is_object_array(h, arr) THEN Items(h, arr) ELSE <<>>

\* A mutant: the base value stays.
BaseWins(h, res, key, value) == h

\* lines 357-359: the overlay wins; the new heap
Overwrite(h, res, key, value) == Assign(res, key, _deep_copy(h, value))

\* lines 330-359: the key is in both; the new heap
MergeExisting(h, res, key, existing, value) ==
    IF isinstance_dict(h, existing) /\ isinstance_dict(h, value)
    THEN Assign(res, key, deep_merge(h, existing, value))
    ELSE IF isinstance_list(h, existing) /\ isinstance_list(h, value)
    THEN IF _is_object_array(h, existing) \/ _is_object_array(h, value)
         THEN Assign(res, key,
                     _merge_object_arrays(h, ObjectView(h, existing),
                                          ObjectView(h, value), HOOK_MERGE_KEY))
         ELSE Assign(res, key,
                     Alloc(h, [t |-> "list",
                               v |-> DedupLoop(h, Items(h, existing) \o Items(h, value),
                                               1, [seen |-> {}, merged |-> <<>>])]))
    ELSE Overwrite(h, res, key, value)

\* lines 321-359: one item of the overlay; the new heap
DeepMergeItem(h, res, key, value) ==
    IF IsNone(value) THEN Pop(h, res, key)
    ELSE IF ~HasKey(h, res, key) THEN Assign(res, key, _deep_copy(h, value))
    ELSE MergeExisting(h, res, key, Get(h, res, key), value)

DeepMergeLoop(h, res, overlay, i) ==
    IF i > Len(Items(h, overlay)) THEN Out(h, res)
    ELSE DeepMergeLoop(
             DeepMergeItem(h, res, Items(h, overlay)[i][1], Items(h, overlay)[i][2]),
             res, overlay, i + 1)

DeepMergeInto(r, overlay) == DeepMergeLoop(r.h, r.v, overlay, 1)

deep_merge(h, base, overlay) == DeepMergeInto(_deep_copy(h, base), overlay)

\* lines 392-395: one server of the overlay's registry; the new heap
ServerItem(h, base_servers, server_name, server_config) ==
    IF IsNone(server_config) THEN Pop(h, base_servers, server_name)
    ELSE Assign(base_servers, server_name, _deep_copy(h, server_config))

\* lines 391-395
RECURSIVE ServerLoop(_, _, _, _)
ServerLoop(h, base_servers, value, j) ==
    IF j > Len(Items(h, value)) THEN h
    ELSE ServerLoop(
             ServerItem(h, base_servers, Items(h, value)[j][1], Items(h, value)[j][2]),
             base_servers, value, j + 1)

\* A mutant: the registry is merged like any other mapping.
NoRegistry(h, key, value, cur) == FALSE

\* lines 385-389: the branch that replaces server entries
IsRegistry(h, key, value, cur) ==
    key = "mcpServers" /\ isinstance_dict(h, value) /\ isinstance_dict(h, cur)

\* A mutant: the overlay's registry replaces the base's.
ReplaceRegistry(h, res, key, value) == Assign(res, key, _deep_copy(h, value))

\* lines 390-396: the servers are updated in place, result[key] = base_servers
MergeRegistry(h, res, key, value) ==
    SetItem(ServerLoop(h, Get(h, res, key), value, 1), res, key, Get(h, res, key))

\* lines 381-400: one item of the overlay; the new heap
McpItem(h, res, key, value) ==
    IF IsNone(value) THEN Pop(h, res, key)
    ELSE IF IsRegistry(h, key, value, Get(h, res, key))
    THEN MergeRegistry(h, res, key, value)
    ELSE IF isinstance_dict(h, value) /\ isinstance_dict(h, Get(h, res, key))
    THEN Assign(res, key, deep_merge(h, Get(h, res, key), value))
    ELSE Assign(res, key, _deep_copy(h, value))

RECURSIVE McpLoop(_, _, _, _)
McpLoop(h, res, overlay, i) ==
    IF i > Len(Items(h, overlay)) THEN Out(h, res)
    ELSE McpLoop(McpItem(h, res, Items(h, overlay)[i][1], Items(h, overlay)[i][2]),
                 res, overlay, i + 1)

McpInto(r, overlay) == McpLoop(r.h, r.v, overlay, 1)

merge_mcp_servers(h, base, overlay) == McpInto(_deep_copy(h, base), overlay)

\* The items of a dict whose key is not k, in order.
RECURSIVE WithoutKey(_, _)
WithoutKey(kvs, k) ==
    IF kvs = <<>> THEN <<>>
    ELSE (IF Head(kvs)[1] = k THEN <<>> ELSE <<Head(kvs)>>) \o WithoutKey(Tail(kvs), k)

\* A mutant: the overlay is used as it is.
KeepMeta(h, data) == Out(h, data)

\* A new dict that shares the values of data.
strip_meta(h, data) ==
    Alloc(h, [t |-> "dict", v |-> WithoutKey(Items(h, data), "_meta")])

\* Python truth value of an optional dict: None and {} are false.
Truthy(h, x) == x.t = "ref" /\ Len(Items(h, x)) > 0

\* A mutant: the arguments of the merge are swapped, the earlier layer wins.
MergeStackSwapped(res, s) == deep_merge(s.h, s.v, res)

\* line 441: result = deep_merge(result, strip_meta(stack))
MergeStack(res, s) == deep_merge(s.h, res, s.v)

\* lines 440-441: fold the stacks in list order
RECURSIVE StackLoop(_, _, _)
StackLoop(r, stacks, i) ==
    IF i > Len(stacks) THEN r
    ELSE StackLoop(MergeStack(r.v, strip_meta(r.h, stacks[i])), stacks, i + 1)

\* lines 442-444
MergeProject(s, project) ==
    IF Truthy(s.h, project) THEN deep_merge(s.h, s.v, project) ELSE s

\* project is Null when no project overlay is given
merge_layers(h, base, stacks, project) ==
    MergeProject(StackLoop(_deep_copy(h, base), stacks, 1), project)

(***************************************************************************)
(* Structural equality of trees: the order of a mapping's keys is          *)
(* irrelevant, the order of a sequence's elements and the type of a        *)
(* scalar are not.                                                         *)
(***************************************************************************)
\* Every key the model's documents use, in Python's string order.
KeyOrder ==
    <<"PreToolUse", "_meta", "a", "allow", "args", "auto-approve", "b",
      "bash_commands", "cmd", "deny", "env", "hooks", "j", "k", "m", "matcher",
      "mcp", "mcpServers", "mutated", "permissions", "timeout", "x", "y", "z">>

Rank(k) == CHOOSE i \in 1..Len(KeyOrder) : KeyOrder[i] = k

\* insert a pair into pairs sorted by key
RECURSIVE InsertSorted(_, _)
InsertSorted(kv, kvs) ==
    IF kvs = <<>> THEN <<kv>>
    ELSE IF Rank(kv[1]) <= Rank(Head(kvs)[1]) THEN <<kv>> \o kvs
    ELSE <<Head(kvs)>> \o InsertSorted(kv, Tail(kvs))

RECURSIVE SortPairs(_)
SortPairs(kvs) ==
    IF kvs = <<>> THEN <<>> ELSE InsertSorted(Head(kvs), SortPairs(Tail(kvs)))

RECURSIVE Canon(_)
Canon(tree) ==
    IF tree.t = "list" THEN PList([i \in 1..Len(tree.v) |-> Canon(tree.v[i])])
    ELSE IF tree.t = "dict"
    THEN PDict(SortPairs([i \in 1..Len(tree.v) |->
                            <<tree.v[i][1], Canon(tree.v[i][2])>>]))
    ELSE tree

SameTree(a, b) == Canon(a) = Canon(b)

\* Reading a tree: the keys of a mapping, the value under a key.
Keys(tree) == {tree.v[i][1] : i \in 1..Len(tree.v)}

Has(tree, k) == tree.t = "dict" /\ k \in Keys(tree)

At(tree, k) == tree.v[KeyPos(tree.v, k)][2]

\* The mapping without key k.
Without(tree, k) == PDict(WithoutKey(tree.v, k))

\* The mapping with key k set to x.
With(tree, k, x) ==
    IF k \in Keys(tree)
    THEN PDict([tree.v EXCEPT ![KeyPos(tree.v, k)] = <<k, x>>])
    ELSE PDict(Append(tree.v, <<k, x>>))

IsScalar(x) == x.t \in {"int", "str", "bool", "float"}

IsObjectArray(tree) ==
    tree.t = "list" /\ Len(tree.v) > 0 /\ \A i \in 1..Len(tree.v) : tree.v[i].t = "dict"

(***************************************************************************)
(* Strings.  A string is a sequence of characters; the characters are      *)
(* ordered by code point, and sorted() orders strings by their first       *)
(* differing character.                                                    *)
(***************************************************************************)
\* The printable ASCII characters of the codes 32 to 95, in code-point order.
AsciiLow ==
    " !\"#$%&'()*+,-./0123456789:;<=>?@ABCDEFGHIJKLMNOPQRSTUVWXYZ[\\]^_"

\* The printable ASCII characters of the codes 97 to 126.
AsciiHigh == "abcdefghijklmnopqrstuvwxyz{|}~"

CharAt(s, i) == SubSeq(s, i, i)

Position(c, s) == CHOOSE i \in 1..Len(s) : CharAt(s, i) = c

\* ord(c)
ord(c) ==
    IF c = "\t" THEN 9
    ELSE IF c = "\n" THEN 10
    ELSE IF \E i \in 1..Len(AsciiLow) : CharAt(AsciiLow, i) = c
    THEN 31 + Position(c, AsciiLow)
    ELSE 96 + Position(c, AsciiHigh)

\* a < b for two strings, as Python compares them
RECURSIVE StrLess(_, _)
StrLess(a, b) ==
    IF b = "" THEN FALSE
    ELSE IF a = "" THEN TRUE
    ELSE IF Head(a) = Head(b) THEN StrLess(Tail(a), Tail(b))
    ELSE ord(Head(a)) < ord(Head(b))

\* sorted(S) for a set of strings
RECURSIVE Sorted(_)
Sorted(S) ==
    IF S = {} THEN <<>>
    ELSE LET least == CHOOSE a \in S : \A b \in S \ {a} : StrLess(a, b)
         IN  <<least>> \o Sorted(S \ {least})

\* the characters str.strip() removes and the regex \s matches
Whitespace == {" ", "\t", "\n"}

\* the characters the regex \w matches
WordChars ==
    {CharAt(AsciiLow, i) : i \in 17..26} \cup {CharAt(AsciiLow, i) : i \in 34..59}
    \cup {CharAt(AsciiHigh, i) : i \in 1..26} \cup {"_"}

RECURSIVE lstrip(_)
lstrip(s) == IF s # "" /\ Head(s) \in Whitespace THEN lstrip(Tail(s)) ELSE s

RECURSIVE rstrip(_)
rstrip(s) ==
    IF s # "" /\ CharAt(s, Len(s)) \in Whitespace
    THEN rstrip(SubSeq(s, 1, Len(s) - 1)) ELSE s

\* str.strip()
strip(s) == rstrip(lstrip(s))

\* the word w stands in s from position i on
WordAt(s, i, w) == i + Len(w) - 1 <= Len(s) /\ SubSeq(s, i, i + Len(w) - 1) = w

IsWordAt(s, i) == i >= 1 /\ i <= Len(s) /\ CharAt(s, i) \in WordChars

\* the regex \b between the positions i and i + 1 of s
Boundary(s, i) == IsWordAt(s, i) # IsWordAt(s, i + 1)

\* the positions i .. j - 1 of s are all whitespace
Blank(s, i, j) == \A n \in i..(j - 1) : CharAt(s, n) \in Whitespace

\* join the strings with a separator
RECURSIVE Join(_, _)
Join(sep, xs) ==
    IF xs = <<>> THEN ""
    ELSE IF Len(xs) = 1 THEN xs[1]
    ELSE xs[1] \o sep \o Join(sep, Tail(xs))

(***************************************************************************)
(* Validation of the merged result.  The validators only read the tree,    *)
(* so they take the tree itself.                                           *)
(***************************************************************************)
_DANGEROUS_BARE ==
    {"*", "sh", "bash", "zsh", "fish", "osascript", "powershell", "curl", "wget", "eval"}

\* the interpreter and the flag of each pattern ^<interpreter>\s+<flag>\b
_INTERPRETER_EXEC_PATTERNS ==
    << <<"python", "-c">>, <<"python3", "-c">>, <<"node", "-e">>,
       <<"perl", "-e">>, <<"ruby", "-e">> >>

\* pat.match(s) for one interpreter pattern
PatMatch(pat, s) ==
    /\ WordAt(s, 1, pat[1])
    /\ \E j \in (Len(pat[1]) + 2)..Len(s) :
          /\ Blank(s, Len(pat[1]) + 1, j)
          /\ WordAt(s, j, pat[2])
          /\ Boundary(s, j + Len(pat[2]) - 1)

\* the shells of the pattern \|\s*(sh|bash|python|python3)\b
PipeTargets == {"sh", "bash", "python", "python3"}

\* _PIPE_TO_SHELL.search(s)
_PIPE_TO_SHELL(s) ==
    \E i \in 1..Len(s) :
        /\ CharAt(s, i) = "|"
        /\ \E j \in (i + 1)..Len(s) :
              /\ Blank(s, i + 1, j)
              /\ \E w \in PipeTargets : WordAt(s, j, w) /\ Boundary(s, j + Len(w) - 1)

Blocked(stripped, why) == "Auto-approve blocked: '" \o stripped \o "' " \o why

\* a validator that stops at the first rule a command violates
ShortCircuit(cmd) ==
    IF cmd.t # "str" THEN <<>>
    ELSE IF strip(cmd.v) \in _DANGEROUS_BARE
    THEN <<Blocked(strip(cmd.v), "is a dangerous bare command")>>
    ELSE IF \E p \in 1..Len(_INTERPRETER_EXEC_PATTERNS) :
                PatMatch(_INTERPRETER_EXEC_PATTERNS[p], strip(cmd.v))
    THEN <<Blocked(strip(cmd.v), "uses interpreter exec flag")>>
    ELSE IF _PIPE_TO_SHELL(strip(cmd.v))
    THEN <<Blocked(strip(cmd.v), "contains pipe-to-shell pattern")>>
    ELSE <<>>

\* lines 185-205: the errors of one command
CommandErrors(cmd) ==
    IF cmd.t # "str" THEN <<>>
    ELSE IF strip(cmd.v) \in _DANGEROUS_BARE
    THEN <<Blocked(strip(cmd.v), "is a dangerous bare command")>>
    ELSE (IF \E p \in 1..Len(_INTERPRETER_EXEC_PATTERNS) :
                PatMatch(_INTERPRETER_EXEC_PATTERNS[p], strip(cmd.v))
          THEN <<Blocked(strip(cmd.v), "uses interpreter exec flag")>> ELSE <<>>)
         \o (IF _PIPE_TO_SHELL(strip(cmd.v))
             THEN <<Blocked(strip(cmd.v), "contains pipe-to-shell pattern")>> ELSE <<>>)

RECURSIVE AutoApproveLoop(_, _, _)
AutoApproveLoop(commands, i, errors) ==
    IF i > Len(commands) THEN errors
    ELSE AutoApproveLoop(commands, i + 1, errors \o CommandErrors(commands[i]))

\* commands: the elements of the list
validate_auto_approve(commands) == AutoApproveLoop(commands, 1, <<>>)

Elements(xs) == {xs[i] : i \in 1..Len(xs)}

\* set(xs) raises TypeError when an element is a list or a dict
Unhashable(xs) == \E x \in Elements(xs) : IsContainer(x)

\* sorted() raises TypeError when it has to compare a string with a
\* value that is none
Unsortable(S) == Cardinality(S) >= 2 /\ \E x \in S : x.t # "str"

\* every allowed entry taken for a conflict
AllowEntries(allow, deny) == Elements(allow)

Conflicts(allow, deny) == Elements(allow) \cap Elements(deny)

\* An outcome of a validator: the list it returns, or the exception it raises.
Returns(errors) == [raised |-> "", errors |-> errors]

Raises(exc) == [raised |-> exc, errors |-> <<>>]

Conflict(entry) ==
    "Allow/deny conflict: '" \o entry \o "' appears in both allow and deny lists"

RECURSIVE ConflictLoop(_, _, _)
ConflictLoop(entries, i, errors) ==
    IF i > Len(entries) THEN errors
    ELSE ConflictLoop(entries, i + 1, Append(errors, Conflict(entries[i])))

\* allow, deny: the elements of the lists, all of them strings or
\* containers
validate_allow_deny_conflicts(allow, deny) ==
    IF Unhashable(allow) \/ Unhashable(deny) THEN Raises("TypeError")
    ELSE IF Unsortable(Conflicts(allow, deny)) THEN Raises("TypeError")
    ELSE Returns(ConflictLoop(
            IF \A x \in Conflicts(allow, deny) : x.t = "str"
            THEN Sorted({x.v : x \in Conflicts(allow, deny)})
            ELSE <<(CHOOSE x \in Conflicts(allow, deny) : TRUE).v>>,
            1, <<>>))

EmptyDict == PDict(<<>>)

EmptyList == PList(<<>>)

\* d.get(k, default) on a tree
get(tree, k, default) == IF Has(tree, k) THEN At(tree, k) ELSE default

\* errors.extend(...) with the outcome of a validator
Extend(errors, outcome) ==
    IF outcome.raised # "" THEN outcome ELSE Returns(errors \o outcome.errors)

\* lines 452-456, for a hooks mapping
AutoApproveErrors(hooks) ==
    IF get(hooks, "auto-approve", EmptyDict).t # "dict" THEN <<>>
    ELSE IF get(get(hooks, "auto-approve", EmptyDict), "bash_commands", EmptyList).t # "list"
    THEN <<>>
    ELSE validate_auto_approve(
            get(get(hooks, "auto-approve", EmptyDict), "bash_commands", EmptyList).v)

\* lines 462-467, for a permissions value
PermissionErrors(perms) ==
    IF perms.t # "dict" THEN Returns(<<>>)
    ELSE IF get(perms, "allow", EmptyList).t # "list" \/ get(perms, "deny", EmptyList).t # "list"
    THEN Returns(<<>>)
    ELSE validate_allow_deny_conflicts(get(perms, "allow", EmptyList).v,
                                       get(perms, "deny", EmptyList).v)

\* merged.get("hooks", {}).get(...) raises AttributeError when the value
\* under "hooks" is no mapping
validate_merged(merged) ==
    IF get(merged, "hooks", EmptyDict).t # "dict" THEN Raises("AttributeError")
    ELSE Extend(AutoApproveErrors(get(merged, "hooks", EmptyDict)),
                PermissionErrors(get(merged, "permissions", EmptyDict)))

KNOWN_TOP_LEVEL_KEYS ==
    {"hooks", "permissions", "env", "preferences", "mcpServers", "mcp", "sandbox",
     "enabledPlugins"}

HOOKS_KNOWN_EVENT_TYPES ==
    {"PreToolUse", "PostToolUse", "PostToolUseFailure", "SessionStart", "SessionEnd",
     "Notification", "Stop", "PreCompact", "PostCompact", "UserPromptSubmit",
     "TaskCompleted", "PermissionRequest", "SubagentStart", "SubagentStop"}

HOOK_ENTRY_KNOWN_FIELDS ==
    {"matcher", "hooks", "event", "type", "command", "timeout", "description"}

PERMISSIONS_KNOWN_FIELDS == {"allow", "deny"}

\* type(x).__name__
TypeName(x) == IF x.t = "null" THEN "NoneType" ELSE x.t

\* one warning for each key of the pairs outside the known set
RECURSIVE UnknownKeys(_, _, _, _, _)
UnknownKeys(kvs, known, before, after, i) ==
    IF i > Len(kvs) THEN <<>>
    ELSE (IF kvs[i][1] \in known THEN <<>> ELSE <<before \o kvs[i][1] \o after>>)
         \o UnknownKeys(kvs, known, before, after, i + 1)

\* lines 139-151: the warnings of one entry of an event
EntryWarnings(event_name, entry) ==
    IF entry.t # "dict" THEN <<>>
    ELSE UnknownKeys(entry.v, HOOK_ENTRY_KNOWN_FIELDS, "Unknown field '",
                     "' in hook entry for event '" \o event_name \o "'", 1)
         \o (IF Has(entry, "hooks") /\ At(entry, "hooks").t # "list"
             THEN <<"Hook entry 'hooks' field should be a list in event '"
                    \o event_name \o "'">>
             ELSE <<>>)

RECURSIVE EntriesWarnings(_, _, _)
EntriesWarnings(event_name, entries, i) ==
    IF i > Len(entries) THEN <<>>
    ELSE EntryWarnings(event_name, entries[i]) \o EntriesWarnings(event_name, entries, i + 1)

\* A mutant: "auto-approve" is checked like an event.
EveryEventWarnings(event_name, entries) ==
    (IF event_name \in HOOKS_KNOWN_EVENT_TYPES THEN <<>>
     ELSE <<"Unknown hook event type: '" \o event_name \o "' (known: "
            \o Join(", ", Sorted(HOOKS_KNOWN_EVENT_TYPES)) \o ")">>)
    \o (IF entries.t = "list" THEN EntriesWarnings(event_name, entries.v, 1) ELSE <<>>)

\* lines 131-151: the warnings of one event of the hooks mapping
EventWarnings(event_name, entries) ==
    IF event_name = "auto-approve" THEN <<>>
    ELSE (IF event_name \in HOOKS_KNOWN_EVENT_TYPES THEN <<>>
          ELSE <<"Unknown hook event type: '" \o event_name \o "' (known: "
                 \o Join(", ", Sorted(HOOKS_KNOWN_EVENT_TYPES)) \o ")">>)
         \o (IF entries.t = "list" THEN EntriesWarnings(event_name, entries.v, 1) ELSE <<>>)

RECURSIVE EventsWarnings(_, _)
EventsWarnings(kvs, i) ==
    IF i > Len(kvs) THEN <<>>
    ELSE EventWarnings(kvs[i][1], kvs[i][2]) \o EventsWarnings(kvs, i + 1)

\* lines 126-151
HooksWarnings(hooks) ==
    IF hooks = Null THEN <<>>
    ELSE IF hooks.t # "dict" THEN <<"'hooks' should be a dict, got " \o TypeName(hooks)>>
    ELSE EventsWarnings(hooks.v, 1)

\* lines 165-171: a field of permissions that is no list
FieldWarning(perms, field) ==
    IF get(perms, field, Null) # Null /\ get(perms, field, Null).t # "list"
    THEN <<"'permissions." \o field \o "' should be a list, got "
           \o TypeName(get(perms, field, Null))>>
    ELSE <<>>

\* lines 155-171
PermissionsWarnings(perms) ==
    IF perms = Null THEN <<>>
    ELSE IF perms.t # "dict"
    THEN <<"'permissions' should be a dict, got " \o TypeName(perms)>>
    ELSE UnknownKeys(perms.v, PERMISSIONS_KNOWN_FIELDS, "Unknown permissions field: '", "'", 1)
         \o FieldWarning(perms, "allow") \o FieldWarning(perms, "deny")

\* lines 174-176
EnvWarnings(env) ==
    IF env # Null /\ env.t # "dict"
    THEN <<"'env' should be a dict, got " \o TypeName(env)>> ELSE <<>>

validate_settings_schema(merged) ==
    UnknownKeys(merged.v, KNOWN_TOP_LEVEL_KEYS, "Unknown top-level key: '",
                "' (possible typo)", 1)
    \o HooksWarnings(get(merged, "hooks", Null))
    \o PermissionsWarnings(get(merged, "permissions", Null))
    \o EnvWarnings(get(merged, "env", Null))

(***************************************************************************)
(* Serialization                                                           *)
(***************************************************************************)
\* insert a pair into pairs sorted by key, as sorted(obj.items()) orders
RECURSIVE InsertByKey(_, _)
InsertByKey(kv, kvs) ==
    IF kvs = <<>> THEN <<kv>>
    ELSE IF StrLess(kv[1], Head(kvs)[1]) THEN <<kv>> \o kvs
    ELSE <<Head(kvs)>> \o InsertByKey(kv, Tail(kvs))

RECURSIVE _sort_keys_recursive(_)
RECURSIVE SortItems(_, _, _)
SortItems(kvs, i, acc) ==
    IF i > Len(kvs) THEN acc
    ELSE SortItems(kvs, i + 1,
                   InsertByKey(<<kvs[i][1], _sort_keys_recursive(kvs[i][2])>>, acc))

RECURSIVE SortElements(_, _)
SortElements(xs, i) ==
    IF i > Len(xs) THEN <<>>
    ELSE <<_sort_keys_recursive(xs[i])>> \o SortElements(xs, i + 1)

_sort_keys_recursive(obj) ==
    IF obj.t = "dict" THEN PDict(SortItems(obj.v, 1, <<>>))
    ELSE IF obj.t = "list" THEN PList(SortElements(obj.v, 1))
    ELSE obj

\* the JSON escape of one character
EscapeChar(c) ==
    IF c = "\"" THEN "\\\""
    ELSE IF c = "\\" THEN "\\\\"
    ELSE IF c = "\n" THEN "\\n"
    ELSE IF c = "\t" THEN "\\t"
    ELSE c

RECURSIVE Escape(_)
Escape(s) == IF s = "" THEN "" ELSE EscapeChar(Head(s)) \o Escape(Tail(s))

Quoted(s) == "\"" \o Escape(s) \o "\""

RECURSIVE Indent(_)
Indent(level) == IF level = 0 THEN "" ELSE "  " \o Indent(level - 1)

\* json.dumps(obj, indent=2, ensure_ascii=False), at a nesting level
RECURSIVE Dumps(_, _)
RECURSIVE DumpItems(_, _, _)
DumpItems(kvs, level, i) ==
    Indent(level) \o Quoted(kvs[i][1]) \o ": " \o Dumps(kvs[i][2], level)
    \o (IF i = Len(kvs) THEN "" ELSE ",\n" \o DumpItems(kvs, level, i + 1))

RECURSIVE DumpElements(_, _, _)
DumpElements(xs, level, i) ==
    Indent(level) \o Dumps(xs[i], level)
    \o (IF i = Len(xs) THEN "" ELSE ",\n" \o DumpElements(xs, level, i + 1))

Dumps(obj, level) ==
    IF obj.t = "dict"
    THEN (IF obj.v = <<>> THEN "{}"
          ELSE "{\n" \o DumpItems(obj.v, level + 1, 1) \o "\n" \o Indent(level) \o "}")
    ELSE IF obj.t = "list"
    THEN (IF obj.v = <<>> THEN "[]"
          ELSE "[\n" \o DumpElements(obj.v, level + 1, 1) \o "\n" \o Indent(level) \o "]")
    ELSE IF obj.t = "str" THEN Quoted(obj.v)
    ELSE IF obj.t = "bool" THEN (IF obj.v = "True" THEN "true" ELSE "false")
    ELSE IF obj.t = "null" THEN "null"
    ELSE obj.v

\* A mutant: the keys stay in insertion order.
Unsorted(data) == Dumps(data, 0) \o "\n"

to_json(data) == Dumps(_sort_keys_recursive(data), 0) \o "\n"

(***************************************************************************)
(* The command line interface: one run of main.  The file system maps a    *)
(* path to the document or the text it holds.                              *)
(***************************************************************************)
Missing == [t |-> "missing", v |-> ""]

File(doc) == [t |-> "file", v |-> doc]

Text(s) == [t |-> "text", v |-> s]

(***************************************************************************)
(* The documents the operations are run on.                                *)
(***************************************************************************)
MaxLen == 2

MaxEntries == 2

MaxStacks == 2

SeqsUpTo(S, n) == UNION {[1..m -> S] : m \in 0..n}

\* A part of a mapping: nothing, or one key with a value.
Part(k, values) == {<<>>} \cup {<< <<k, x>> >> : x \in values}

\* Primitive arrays: 1, "1" and true are equal only to themselves.
PrimElems == {JInt("1"), JStr("1"), JBool("True")}

PrimArrays == {PList(xs) : xs \in SeqsUpTo(PrimElems, MaxLen)}

\* Hook entries: keyed elements with a list of commands.
Cmd(c) == PDict(<< <<"cmd", JStr(c)>> >>)

EntryA1 == PDict(<< <<"matcher", JStr("A")>>, <<"hooks", PList(<<Cmd("a1")>>)>> >>)

EntryA2 ==
    PDict(<< <<"matcher", JStr("A")>>, <<"hooks", PList(<<Cmd("a2")>>)>>,
             <<"timeout", JInt("5")>> >>)

EntryB == PDict(<< <<"hooks", PList(<<Cmd("b")>>)>>, <<"matcher", JStr("B")>> >>)

EntryN1 == PDict(<< <<"hooks", PList(<<Cmd("n1")>>)>> >>)

EntryN2 == PDict(<< <<"hooks", PList(<<Cmd("n2")>>)>>, <<"timeout", JInt("9")>> >>)

Entries == {EntryA1, EntryA2, EntryB, EntryN1}

ObjArrays ==
    {PList(xs) : xs \in SeqsUpTo(Entries, MaxEntries) \ {<<>>}}
    \cup {PList(<<EntryN2, EntryN1>>), PList(<<EntryA1, EntryN2>>)}

\* Values of every other shape: scalars, null, mappings, sequences that are
\* neither primitive nor object arrays.
D12 == PDict(<< <<"a", JInt("1")>>, <<"b", JInt("2")>> >>)

D21 == PDict(<< <<"b", JInt("2")>>, <<"a", JInt("1")>> >>)

MiscValues ==
    { JInt("1"), JStr("s"), JFloat("1.0"), Null,
      PDict(<<>>),
      PDict(<< <<"k", JInt("1")>> >>),
      PDict(<< <<"k", Null>> >>),
      PDict(<< <<"j", JStr("s")>>, <<"k", JInt("2")>> >>),
      PDict(<< <<"m", PDict(<< <<"k", Null>>, <<"j", JInt("3")>> >>)>> >>),
      PList(<<>>),
      PList(<<JInt("1"), JInt("1")>>),
      PList(<<Null, JStr("None")>>),
      PList(<<PList(<<JInt("1")>>)>>),
      PList(<<PList(<<JInt("2")>>), PList(<<JInt("1")>>)>>),
      PList(<<JInt("1"), D12>>),
      PList(<<JInt("2"), D21>>),
      PList(<<EntryA1>>) }

\* A document with the field "x" and an unrelated field "z".
Doc(x) == PDict(<< <<"z", JStr("keep")>>, <<"x", x>> >>)

NoX == PDict(<< <<"z", JStr("keep")>> >>)

Overlay(x) == PDict(<< <<"x", x>> >>)

FieldPairs ==
    (PrimArrays \X PrimArrays) \cup (ObjArrays \X ObjArrays)
    \cup (MiscValues \X MiscValues)

DeepMergeArgs ==
    {[base |-> Doc(p[1]), overlay |-> Overlay(p[2])] : p \in FieldPairs}
    \cup {[base |-> NoX, overlay |-> Overlay(x)] : x \in MiscValues}
    \cup {[base |-> Doc(x), overlay |-> PDict(<<>>)] : x \in MiscValues}


\* Server registries: every server is absent, deleted (null) or configured.
Cfg1 == PDict(<< <<"args", PList(<<JStr("v1")>>)>> >>)

Cfg2 ==
    PDict(<< <<"args", PList(<<JStr("v2")>>)>>,
             <<"env", PDict(<< <<"k", JStr("e")>> >>)>> >>)

ServerValues == {Null, Cfg1, Cfg2}

Registries ==
    {PDict(<<>>)}
    \cup {PDict(<< <<n, c>> >>) : n \in {"x", "y"}, c \in ServerValues}
    \cup {PDict(<< <<"x", c>>, <<"y", d>> >>) : c \in ServerValues, d \in ServerValues}

RegistryValues == Registries \cup {JStr("s"), PList(<<JStr("v1")>>)}

McpDoc(r) == PDict(<< <<"z", PList(<<JStr("keep")>>)>>, <<"mcpServers", r>> >>)

McpOverlay(r) == PDict(<< <<"mcpServers", r>> >>)

McpArgs ==
    {[base |-> McpDoc(b), overlay |-> McpOverlay(o)] :
        b \in RegistryValues, o \in RegistryValues \cup {Null}}
    \cup {[base |-> NoX, overlay |-> McpOverlay(o)] : o \in Registries}
    \cup {[base |-> McpDoc(Cfg1),
           overlay |-> PDict(<< <<"z", PList(<<JStr("more")>>)>> >>)]}

\* Layers: a base, stack overlays and an optional project overlay.
BaseLayers ==
    { PDict(<<>>),
      PDict(<< <<"a", JInt("1")>>, <<"_meta", JStr("b")>> >>),
      PDict(<< <<"a", Null>>, <<"m", PDict(<< <<"k", JInt("1")>> >>)>> >>),
      PDict(<< <<"a", PList(<<JInt("1")>>)>> >>) }

StackLayers ==
    { PDict(<< <<"a", JInt("2")>> >>),
      PDict(<< <<"a", Null>>, <<"_meta", Null>> >>),
      PDict(<< <<"_meta", JStr("s")>>, <<"a", PList(<<JInt("2")>>)>> >>),
      PDict(<< <<"m", PDict(<< <<"k", Null>>, <<"_meta", JStr("n")>> >>)>> >>),
      PDict(<< <<"m", PDict(<< <<"k", JInt("2")>> >>)>>, <<"_meta", JStr("t")>> >>) }

ProjectLayers ==
    { Null,
      PDict(<<>>),
      PDict(<< <<"a", JInt("3")>> >>),
      PDict(<< <<"_meta", JStr("p")>>, <<"m", PDict(<< <<"k", Null>> >>)>> >>),
      PDict(<< <<"a", PList(<<JInt("1"), JInt("3")>>)>> >>),
      PDict(<< <<"m", PDict(<< <<"j", Null>>, <<"k", JInt("3")>> >>)>> >>) }

\* Layers that all hold a primitive array in one field: at the top level
\* or inside a mapping, under an ordinary key or under "_meta".
ArrayFields == {<<"a">>, <<"_meta">>, <<"m", "a">>, <<"m", "_meta">>}

LayerArrays ==
    {PList(<<>>), PList(<<JInt("1"), JInt("1")>>), PList(<<JInt("2"), JInt("1")>>),
     PList(<<JStr("1"), JBool("True")>>)}

\* The document that holds x at the path.
RECURSIVE Holding(_, _)
Holding(path, x) ==
    IF path = <<>> THEN x ELSE PDict(<< <<Head(path), Holding(Tail(path), x)>> >>)

ArrayLayerArgs ==
    {[base |-> Holding(f, b), stacks |-> [i \in 1..Len(ss) |-> Holding(f, ss[i])],
      project |-> Holding(f, p)] :
        f \in ArrayFields, b \in LayerArrays, ss \in SeqsUpTo(LayerArrays, MaxStacks),
        p \in LayerArrays}

LayerArgs ==
    {[base |-> b, stacks |-> ss, project |-> p] :
        b \in BaseLayers, ss \in SeqsUpTo(StackLayers, MaxStacks), p \in ProjectLayers}
    \cup ArrayLayerArgs

\* An empty sequence on one side, an object array on the other.
EmptyPairs == ({PList(<<>>)} \X ObjArrays) \cup (ObjArrays \X {PList(<<>>)})

\* Two elements with the same key, each with a field beside "hooks": the
\* field is missing, or holds a value of any shape.
Element(part) ==
    PDict(<< <<"matcher", JStr("A")>>, <<"hooks", PList(<<Cmd("a1")>>)>> >> \o part)

Elements2 ==
    {Element(part) :
        part \in Part("timeout", MiscValues \cup {PList(<<JInt("1")>>),
                                                 PList(<<JStr("1"), JInt("1")>>)})}

ElementPairs == {<<PList(<<b>>), PList(<<o>>)>> : b \in Elements2, o \in Elements2}

\* Delete, then add again: a tree that holds a value at a key path, an
\* overlay that sets the path to null, an overlay that sets it to a value.
ReaddPaths == {<<"x">>, <<"_meta">>, <<"m", "x">>, <<"m", "_meta">>}

FormerValues ==
    { JInt("1"), PDict(<< <<"j", JStr("s")>>, <<"k", JInt("2")>> >>),
      PList(<<JInt("1"), JInt("1")>>), PList(<<EntryA1>>) }

NewValues ==
    { JStr("s"), PDict(<< <<"k", JInt("1")>> >>), PDict(<< <<"k", Null>> >>),
      PList(<<>>), PList(<<JInt("2"), JInt("1")>>), PList(<<EntryA2>>) }

\* The tree that holds x at the path beside an unrelated field.
ReaddTree(path, x) == PDict(<< <<"z", JStr("keep")>> >> \o Holding(path, x).v)

ReaddArgs ==
    {[call |-> "deep_merge", base |-> ReaddTree(f, x), overlay |-> Holding(f, Null),
      stacks |-> <<>>, project |-> Null] : f \in ReaddPaths, x \in FormerValues}
    \cup {[call |-> "merge_layers", base |-> ReaddTree(f, x), overlay |-> Null,
           stacks |-> <<Holding(f, Null), Holding(f, v)>>, project |-> Null] :
              f \in ReaddPaths, x \in FormerValues, v \in NewValues}
    \cup {[call |-> "merge_layers", base |-> ReaddTree(f, x), overlay |-> Null,
           stacks |-> <<Holding(f, Null)>>, project |-> Holding(f, v)] :
              f \in ReaddPaths, x \in FormerValues, v \in NewValues}

\* Layers that all hold an object array or an empty sequence in the field
\* "x": arrays with repeated keys and with elements that have no key.
KeyedArrays ==
    {PList(<<>>), PList(<<EntryA2, EntryA1>>), PList(<<EntryN2, EntryN1>>),
     PList(<<EntryA1, EntryN2>>), PList(<<EntryB>>)}

KeyedLayerArgs ==
    {[call |-> "merge_layers", base |-> Overlay(b), overlay |-> Null,
      stacks |-> [i \in 1..Len(ss) |-> Overlay(ss[i])],
      project |-> IF p = Null THEN Null ELSE Overlay(p)] :
        b \in KeyedArrays, ss \in SeqsUpTo(KeyedArrays, MaxStacks),
        p \in KeyedArrays \cup {Null}}

\* Trees to merge with nothing: a document around a value of every shape.
Trees == {PDict(<<>>)} \cup {Doc(x) : x \in MiscValues \cup PrimArrays \cup ObjArrays}

Cases ==
    {[call |-> "deep_merge", base |-> a.base, overlay |-> a.overlay,
      stacks |-> <<>>, project |-> Null] : a \in DeepMergeArgs}
    \cup {[call |-> "deep_merge", base |-> T, overlay |-> PDict(<<>>),
           stacks |-> <<>>, project |-> Null] : T \in Trees}
    \cup {[call |-> "deep_merge", base |-> Doc(p[1]), overlay |-> Overlay(p[2]),
           stacks |-> <<>>, project |-> Null] : p \in EmptyPairs \cup ElementPairs}
    \cup {[call |-> "merge_layers", base |-> T, overlay |-> Null,
           stacks |-> <<>>, project |-> Null] : T \in Trees}
    \cup {[call |-> "merge_mcp_servers", base |-> a.base, overlay |-> a.overlay,
           stacks |-> <<>>, project |-> Null] : a \in McpArgs \cup DeepMergeArgs}
    \cup {[call |-> "merge_layers", base |-> a.base, overlay |-> Null,
           stacks |-> a.stacks, project |-> a.project] : a \in LayerArgs}
    \cup ReaddArgs \cup KeyedLayerArgs

(***************************************************************************)
(* The runs of the command line interface: the files and the arguments.    *)
(***************************************************************************)
MaxStackFiles == 1

AutoApprove(cmds) == PDict(<< <<"auto-approve", PDict(<< <<"bash_commands", cmds>> >>)>> >>)

CleanBase ==
    PDict(<< <<"hooks",
               PDict(<< <<"auto-approve",
                          PDict(<< <<"bash_commands",
                                     PList(<<JStr("git status"), JStr("python -cx"),
                                             JStr("echo a |shell")>>)>> >>)>>,
                        <<"PreToolUse", PList(<<EntryA1>>)>> >>)>>,
             <<"permissions",
               PDict(<< <<"allow", PList(<<JStr("Read")>>)>>,
                        <<"deny", PList(<<JStr("Write")>>)>> >>)>> >>)

DangerousBase ==
    PDict(<< <<"hooks",
               AutoApprove(PList(<<JStr(" bash "), JStr("python3  -c 1"),
                                   JStr("curl x | sh"), JInt("5")>>))>> >>)

ConflictBase ==
    PDict(<< <<"hook", JInt("1")>>,
             <<"permissions",
               PDict(<< <<"allow", PList(<<JStr("Write"), JStr("Read")>>)>>,
                        <<"deny", PList(<<JStr("Read"), JStr("Write")>>)>>,
                        <<"other", JStr("x")>> >>)>>,
             <<"env", JStr("x")>> >>)

HooksListBase == PDict(<< <<"hooks", PList(<<JInt("1")>>)>> >>)

CliBases == {EmptyDict, CleanBase, DangerousBase, ConflictBase, HooksListBase}

\* s1.json: denies what CleanBase allows
Stack1 ==
    PDict(<< <<"_meta", PDict(<< <<"k", JInt("1")>> >>)>>,
             <<"permissions", PDict(<< <<"deny", PList(<<JStr("Read")>>)>> >>)>> >>)

\* s2.json: an interpreter with an exec flag, and an unknown event
Stack2 ==
    PDict(<< <<"hooks",
               PDict(<< <<"auto-approve",
                          PDict(<< <<"bash_commands",
                                     PList(<<JStr("node -e 1"), JStr("git status")>>)>> >>)>>,
                        <<"Bogus",
                          PList(<<PDict(<< <<"x", JInt("1")>>,
                                           <<"hooks", JInt("1")>> >>)>>)>> >>)>> >>)

ServersProject ==
    PDict(<< <<"mcpServers", PDict(<< <<"x", Null>>, <<"z", Cfg2>> >>)>> >>)

\* deletes the auto-approved commands of the earlier layers
McpProjectDoc ==
    PDict(<< <<"mcp", PDict(<< <<"mcpServers", PDict(<< <<"y", Cfg2>> >>)>> >>)>>,
             <<"hooks", AutoApprove(Null)>> >>)

BadMcpProject == PDict(<< <<"mcp", JStr("x")>> >>)

UnhashableProject ==
    PDict(<< <<"permissions",
               PDict(<< <<"allow", PList(<<PDict(<< <<"k", JInt("1")>> >>)>>)>> >>)>> >>)

CliProjects == {ServersProject, McpProjectDoc, BadMcpProject, UnhashableProject}

McpBaseDoc ==
    PDict(<< <<"mcpServers", PDict(<< <<"x", Cfg1>>, <<"y", Cfg1>> >>)>>,
             <<"z", JInt("1")>> >>)

StackPaths == {"s1.json", "s2.json", "s3.json"}

Paths ==
    {"base.json", "project.json", "mcp.json", "out/settings.json", "out/.mcp.json"}
    \cup StackPaths

\* The file system of a run: s3.json does not exist, no output file does.
Files(b, p, m) ==
    [path \in Paths |->
        IF path = "base.json" THEN b
        ELSE IF path = "s1.json" THEN File(Stack1)
        ELSE IF path = "s2.json" THEN File(Stack2)
        ELSE IF path = "project.json" THEN p
        ELSE IF path = "mcp.json" THEN m
        ELSE Missing]

\* An optional input file: not named, named and missing, named and present.
Optional(path, docs) ==
    {[path |-> "", file |-> Missing]}
    \cup {[path |-> path, file |-> f] : f \in {Missing} \cup {File(d) : d \in docs}}

CliRuns ==
    {[argv |-> [base |-> "base.json", stacks |-> ss, project |-> p.path, output |-> o,
                validate |-> v, mcp_base |-> m.path, mcp_output |-> mo],
      fs |-> Files(b, p.file, m.file)] :
        b \in {Missing} \cup {File(d) : d \in CliBases},
        ss \in SeqsUpTo(StackPaths, MaxStackFiles),
        p \in Optional("project.json", CliProjects),
        o \in {"", "out/settings.json"},
        v \in BOOLEAN,
        m \in Optional("mcp.json", {McpBaseDoc}),
        mo \in {"", "out/.mcp.json"}}

(***************************************************************************)
(* The state machine: the documents are loaded, one of the merge           *)
(* functions is called on them, and the caller may then change the tree    *)
(* it was given back.                                                      *)
(***************************************************************************)
Idle == [pc |-> "none"]

\* The documents of a case, loaded: base, overlay, project, then the stacks.
Loaded(c) == LoadAll(<<>>, <<c.base, c.overlay, c.project>> \o c.stacks, 1, <<>>)

Init ==
    \E c \in Cases :
        \E l \in {Loaded(c)} :
            /\ heap = l.h
            /\ call = c.call
            /\ args = [base |-> l.v[1], overlay |-> l.v[2], project |-> l.v[3],
                       stacks |-> SubSeq(l.v, 4, Len(l.v))]
            /\ snap = [base |-> c.base, overlay |-> c.overlay,
                       stacks |-> c.stacks, project |-> c.project]
            /\ result = Null
            /\ pc = "ready"
            /\ cli = Idle

DeepMerge ==
    /\ pc = "ready" /\ call = "deep_merge"
    /\ \E r \in {deep_merge(heap, args.base, args.overlay)} :
          heap' = r.h /\ result' = r.v
    /\ pc' = "returned"
    /\ UNCHANGED <<call, args, snap, cli>>

MergeMcpServers ==
    /\ pc = "ready" /\ call = "merge_mcp_servers"
    /\ \E r \in {merge_mcp_servers(heap, args.base, args.overlay)} :
          heap' = r.h /\ result' = r.v
    /\ pc' = "returned"
    /\ UNCHANGED <<call, args, snap, cli>>

MergeLayers ==
    /\ pc = "ready" /\ call = "merge_layers"
    /\ \E r \in {merge_layers(heap, args.base, args.stacks, args.project)} :
          heap' = r.h /\ result' = r.v
    /\ pc' = "returned"
    /\ UNCHANGED <<call, args, snap, cli>>

\* The caller changes one container of the returned tree: it appends to a
\* list, or sets a key of a dict.
Mutated(cell) ==
    IF cell.t = "list" THEN [t |-> "list", v |-> Append(cell.v, JStr("mutated"))]
    ELSE [t |-> "dict",
          v |-> WithoutKey(cell.v, "mutated") \o << <<"mutated", JStr("mutated")>> >>]

Mutate ==
    /\ pc = "returned"
    /\ \E a \in Reach(heap, result) :
          heap' = [heap EXCEPT ![a] = Mutated(heap[a])]
    /\ pc' = "mutated"
    /\ UNCHANGED <<call, args, snap, result, cli>>

Next == DeepMerge \/ MergeMcpServers \/ MergeLayers \/ Mutate

Spec == Init /\ [][Next]_vars


(***************************************************************************)
(* One run of main, statement by statement.                                *)
(***************************************************************************)
\* Path.exists()
exists(fs, path) == fs[path].t # "missing"

\* the run ends with an exit code
Exit(c, code) == [c EXCEPT !.pc = "exit", !.code = code]

\* print(..., file=sys.stderr)
Stderr(c, line) == [c EXCEPT !.stderr = Append(@, line \o "\n")]

\* an exception nobody catches: the interpreter prints the traceback and
\* exits with code 1
Uncaught(c, exc) == Exit(Stderr(c, "Traceback (most recent call last): " \o exc), 1)

\* lines 504-508
LoadBase ==
    /\ pc = "main" /\ cli.pc = "base"
    /\ IF ~exists(cli.fs, cli.argv.base)
       THEN /\ cli' = Exit(Stderr(cli, "Error: base file not found: " \o cli.argv.base), 1)
            /\ heap' = heap
       ELSE \E r \in {Load(heap, cli.fs[cli.argv.base].v)} :
               /\ heap' = r.h
               /\ cli' = [cli EXCEPT !.pc = "stacks", !.base = r.v]
    /\ UNCHANGED <<call, args, snap, result, pc>>

\* the stacks that do not exist
MissingStacks(c) == {i \in 1..Len(c.argv.stacks) : ~exists(c.fs, c.argv.stacks[i])}

\* the documents of the stacks before the i-th
RECURSIVE StackDocs(_, _, _)
StackDocs(c, i, n) ==
    IF i > n THEN <<>>
    ELSE <<c.fs[c.argv.stacks[i]].v>> \o StackDocs(c, i + 1, n)

\* lines 511-518: the stacks are loaded in order up to the first that is missing
LoadStacks ==
    /\ pc = "main" /\ cli.pc = "stacks"
    /\ IF MissingStacks(cli) # {}
       THEN \E i \in MissingStacks(cli) :
               /\ \A j \in MissingStacks(cli) : i <= j
               /\ \E r \in {LoadAll(heap, StackDocs(cli, 1, i - 1), 1, <<>>)} :
                     heap' = r.h
               /\ cli' = Exit(Stderr(cli, "Error: stack file not found: "
                                          \o cli.argv.stacks[i]), 1)
       ELSE \E r \in {LoadAll(heap, StackDocs(cli, 1, Len(cli.argv.stacks)), 1, <<>>)} :
               /\ heap' = r.h
               /\ cli' = [cli EXCEPT !.pc = "project", !.stacks = r.v]
    /\ UNCHANGED <<call, args, snap, result, pc>>

\* lines 521-527
LoadProject ==
    /\ pc = "main" /\ cli.pc = "project"
    /\ IF cli.argv.project = ""
       THEN /\ cli' = [cli EXCEPT !.pc = "merge"]
            /\ heap' = heap
       ELSE IF ~exists(cli.fs, cli.argv.project)
       THEN /\ cli' = Exit(Stderr(cli, "Error: project file not found: "
                                       \o cli.argv.project), 1)
            /\ heap' = heap
       ELSE \E r \in {Load(heap, cli.fs[cli.argv.project].v)} :
               /\ heap' = r.h
               /\ cli' = [cli EXCEPT !.pc = "merge", !.project = r.v]
    /\ UNCHANGED <<call, args, snap, result, pc>>

\* line 530
Merge ==
    /\ pc = "main" /\ cli.pc = "merge"
    /\ \E r \in {merge_layers(heap, cli.base, cli.stacks, cli.project)} :
          /\ heap' = r.h
          /\ cli' = [cli EXCEPT !.pc = "schema", !.merged = r.v]
    /\ UNCHANGED <<call, args, snap, result, pc>>

RECURSIVE StderrAll(_, _, _)
StderrAll(c, lines, i) ==
    IF i > Len(lines) THEN c
    ELSE StderrAll(Stderr(c, "  - " \o lines[i]), lines, i + 1)

\* lines 533-537: the warnings are printed, the run goes on
Warn(c, schema_warnings) ==
    IF schema_warnings = <<>> THEN c
    ELSE StderrAll(Stderr(c, "Schema warnings:"), schema_warnings, 1)

SchemaValidation ==
    /\ pc = "main" /\ cli.pc = "schema"
    /\ \E w \in {validate_settings_schema(Deref(heap, cli.merged))} :
          cli' = [Warn(cli, w) EXCEPT !.pc = "validate", !.schema_warnings = w]
    /\ UNCHANGED <<heap, call, args, snap, result, pc>>

\* A mutant: the errors are printed and the run goes on.
NeverBlocks(errors) == FALSE

\* line 541: if errors
Blocks(errors) == errors # <<>>

\* lines 540-544
Checked(c, outcome) ==
    IF outcome.raised # "" THEN Uncaught(c, outcome.raised)
    ELSE IF Blocks(outcome.errors)
    THEN Exit(StderrAll([c EXCEPT !.errors = outcome.errors], outcome.errors, 1), 1)
    ELSE [c EXCEPT !.pc = "mode"]

Validate ==
    /\ pc = "main" /\ cli.pc = "validate"
    /\ \E o \in {validate_merged(Deref(heap, cli.merged))} :
          cli' = Checked([cli EXCEPT !.validated = TRUE], o)
    /\ UNCHANGED <<heap, call, args, snap, result, pc>>

\* sys.stdout.write / print
Stdout(c, s) == [c EXCEPT !.stdout = Append(@, s)]

\* lines 546-548
ValidateOnly ==
    /\ pc = "main" /\ cli.pc = "mode" /\ cli.argv.validate
    /\ cli' = Exit(Stdout(cli, "Valid: all inputs merge cleanly\n"), 0)
    /\ UNCHANGED <<heap, call, args, snap, result, pc>>

\* out_path.write_text(s) and the line on standard error
WriteText(c, path, s, said) ==
    Stderr([c EXCEPT !.fs[path] = Text(s)], said \o path)

\* lines 552-558 and 581-587: to the file when a path is given, else to
\* standard output
Emit(c, path, s, said) ==
    IF path # "" THEN WriteText(c, path, s, said) ELSE Stdout(c, s)

\* lines 551-558
WriteSettings ==
    /\ pc = "main" /\ cli.pc = "mode" /\ ~cli.argv.validate
    /\ \E s \in {to_json(Deref(heap, cli.merged))} :
          cli' = [Emit(cli, cli.argv.output, s, "Generated: ") EXCEPT !.pc = "mcp"]
    /\ UNCHANGED <<heap, call, args, snap, result, pc>>

\* lines 572-576: the overlay of the MCP merge
McpProject(h, project) ==
    IF Truthy(h, project) /\ HasKey(h, project, "mcpServers")
    THEN Alloc(h, [t |-> "dict",
                   v |-> << <<"mcpServers", Get(h, project, "mcpServers")>> >>])
    ELSE IF Truthy(h, project) /\ HasKey(h, project, "mcp")
    THEN Out(h, Get(h, project, "mcp"))
    ELSE Alloc(h, [t |-> "dict", v |-> <<>>])

\* line 578, for the overlay r.v
McpMerged(r, mcp_base) == merge_mcp_servers(r.h, mcp_base, r.v)

\* lines 569-578
McpLoaded(l, project) == McpMerged(McpProject(l.h, project), l.v)

\* lines 561-589
McpPass ==
    /\ pc = "main" /\ cli.pc = "mcp"
    /\ IF cli.argv.mcp_base = ""
       THEN /\ cli' = Exit(cli, 0)
            /\ heap' = heap
       ELSE IF ~exists(cli.fs, cli.argv.mcp_base)
       THEN /\ cli' = Exit(Stderr(cli, "Error: MCP base file not found: "
                                       \o cli.argv.mcp_base), 1)
            /\ heap' = heap
       ELSE IF Truthy(heap, cli.project) /\ ~HasKey(heap, cli.project, "mcpServers")
               /\ HasKey(heap, cli.project, "mcp")
               /\ ~isinstance_dict(heap, Get(heap, cli.project, "mcp"))
       THEN \* overlay.items() of a value that is no mapping
            /\ cli' = Uncaught(cli, "AttributeError")
            /\ heap' = heap
       ELSE \E r \in {McpLoaded(Load(heap, cli.fs[cli.argv.mcp_base].v), cli.project)} :
               /\ heap' = r.h
               /\ cli' = Exit(Emit(cli, cli.argv.mcp_output, to_json(Deref(r.h, r.v)),
                                   "Generated MCP: "), 0)
    /\ UNCHANGED <<call, args, snap, result, pc>>

\* The state of a run before main's first statement.
Started(run) ==
    [pc |-> "base", argv |-> run.argv, fs |-> run.fs, code |-> -1,
     stdout |-> <<>>, stderr |-> <<>>, base |-> Null, stacks |-> <<>>,
     project |-> Null, merged |-> Null, schema_warnings |-> <<>>,
     errors |-> <<>>, validated |-> FALSE]

NoArgs == [base |-> Null, overlay |-> Null, project |-> Null, stacks |-> <<>>]

InitCLI ==
    \E run \in CliRuns :
        /\ cli = Started(run)
        /\ heap = <<>>
        /\ call = "main"
        /\ args = NoArgs
        /\ snap = NoArgs
        /\ result = Null
        /\ pc = "main"

NextCLI ==
    \/ LoadBase \/ LoadStacks \/ LoadProject \/ Merge \/ SchemaValidation
    \/ Validate \/ ValidateOnly \/ WriteSettings \/ McpPass

SpecCLI == InitCLI /\ [][NextCLI]_vars


(***************************************************************************)
(* The validators as functions: one call of validate_auto_approve on a     *)
(* list of commands, or of validate_allow_deny_conflicts on an allow list  *)
(* and a deny list.  args holds the lists, result the outcome.             *)
(***************************************************************************)
MaxCommands == 2

MaxRules == 2

\* Entries of an auto-approve list: harmless commands, bare dangerous
\* names with and without surrounding whitespace, interpreter calls,
\* pipes into a shell, commands that are both, near misses of each
\* pattern, and entries that are no strings.
Commands ==
    {JStr("ls"), JStr("bash"), JStr(" sh\n"), JStr("*"), JStr("bashx"),
     JStr("python -c 1"), JStr("\tnode  -e x"), JStr("python3 -cx"),
     JStr("python3 -c"), JStr("a | sh"), JStr("a |bash;"), JStr("a | shx"),
     JStr("perl -e 1|python3"), JStr(" ruby\t-e 1 | python "),
     JInt("5"), Null, JBool("True"), PList(<<JStr("sh")>>)}

\* Entries of an allow or a deny list.
Rules == {JStr("Read"), JStr("Write"), JStr("read"), JStr("Bash(ls)"), JStr("Bash(*)")}

\* Keys beside the three that the schema looks into: known and unknown.
OtherParts ==
    {<<>>, << <<"bogus", JInt("1")>> >>,
     << <<"typo", Null>>, <<"mcp", JStr("x")>>, <<"bogus", PDict(<<>>)>> >>,
     << <<"sandbox", JBool("True")>>, <<"mcpServers", PDict(<<>>)>>,
        <<"preferences", PList(<<>>)>>, <<"enabledPlugins", JInt("1")>> >>}

HooksValues ==
    {Null, JStr("x"), PList(<<JInt("1")>>), PDict(<<>>),
     PDict(<< <<"PreToolUse", PList(<<EntryA1, EntryB>>)>>,
              <<"auto-approve", PDict(<< <<"bash_commands", PList(<<JStr("ls")>>)>> >>)>> >>),
     PDict(<< <<"auto-approve", PList(<<PDict(<< <<"x", JInt("1")>> >>)>>)>> >>),
     PDict(<< <<"Bogus", PList(<<EntryA1>>)>>, <<"Stop", JInt("5")>>,
              <<"pretooluse", PList(<<>>)>> >>),
     PDict(<< <<"SessionStart", PList(<<JInt("1"), EntryA2>>)>> >>),
     PDict(<< <<"Stop", PList(<<PDict(<< <<"x", JInt("1")>>, <<"hooks", JInt("1")>>,
                                        <<"command", JStr("c")>> >>)>>)>> >>),
     PDict(<< <<"PostToolUse", PList(<<PDict(<< <<"hooks", Null>> >>)>>)>> >>)}

PermissionsValues ==
    {Null, JInt("3"), PList(<<>>), PDict(<<>>),
     PDict(<< <<"allow", PList(<<JStr("Read")>>)>>, <<"deny", PList(<<>>)>> >>),
     PDict(<< <<"allow", JStr("Read")>>, <<"deny", Null>> >>),
     PDict(<< <<"ask", PList(<<>>)>>, <<"deny", PDict(<<>>)>>, <<"Allow", JInt("1")>> >>)}

EnvValues == {Null, JInt("1"), PList(<<>>), PDict(<< <<"k", JStr("e")>> >>)}

\* Settings documents for the schema checker.
SchemaDocs ==
    {PDict(o \o h \o p \o e) :
        o \in OtherParts, h \in Part("hooks", HooksValues),
        p \in Part("permissions", PermissionsValues), e \in Part("env", EnvValues)}

\* Trees to serialize: up to MaxKeys keys whose order as strings differs
\* from their order of insertion, over values of every shape, among them
\* mappings inside mappings and inside sequences.
MaxKeys == 2

JsonKeys == {"a", "_meta", "PreToolUse", "allow"}

JsonValues ==
    {Null, JBool("False"), JFloat("1.5"), JStr("say \"hi\"\n"), D12, D21,
     PList(<<JInt("2"), JInt("1")>>), PList(<<D21, PList(<<>>), D12>>),
     PDict(<< <<"m", D21>>, <<"a", PList(<<D21>>)>>, <<"_meta", PDict(<<>>)>> >>)}

JsonDocs ==
    {PDict(kvs) : kvs \in {s \in SeqsUpTo(JsonKeys \X JsonValues, MaxKeys) :
                              \A i, j \in 1..Len(s) : i # j => s[i][1] # s[j][1]}}

NoLists ==
    [commands |-> <<>>, allow |-> <<>>, deny |-> <<>>, merged |-> Null, data |-> Null]

ValidatorCalls ==
    {[NoLists EXCEPT !.commands = cs] @@ [call |-> "validate_auto_approve"] :
        cs \in SeqsUpTo(Commands, MaxCommands)}
    \cup {[NoLists EXCEPT !.allow = a, !.deny = d]
           @@ [call |-> "validate_allow_deny_conflicts"] :
        a \in SeqsUpTo(Rules, MaxRules), d \in SeqsUpTo(Rules, MaxRules)}
    \cup {[NoLists EXCEPT !.merged = m] @@ [call |-> "validate_settings_schema"] :
        m \in SchemaDocs}
    \cup {[NoLists EXCEPT !.data = d] @@ [call |-> "to_json"] : d \in JsonDocs}

InitValidators ==
    \E c \in ValidatorCalls :
        /\ call = c.call
        /\ args = [commands |-> c.commands, allow |-> c.allow, deny |-> c.deny,
                   merged |-> c.merged, data |-> c.data]
        /\ snap = NoArgs
        /\ heap = <<>>
        /\ result = Null
        /\ pc = "ready"
        /\ cli = Idle

ValidateAutoApprove ==
    /\ pc = "ready" /\ call = "validate_auto_approve"
    /\ result' = Returns(validate_auto_approve(args.commands))
    /\ pc' = "returned"
    /\ UNCHANGED <<heap, call, args, snap, cli>>

ValidateAllowDenyConflicts ==
    /\ pc = "ready" /\ call = "validate_allow_deny_conflicts"
    /\ result' = validate_allow_deny_conflicts(args.allow, args.deny)
    /\ pc' = "returned"
    /\ UNCHANGED <<heap, call, args, snap, cli>>

ValidateSettingsSchema ==
    /\ pc = "ready" /\ call = "validate_settings_schema"
    /\ result' = Returns(validate_settings_schema(args.merged))
    /\ pc' = "returned"
    /\ UNCHANGED <<heap, call, args, snap, cli>>

ToJson ==
    /\ pc = "ready" /\ call = "to_json"
    /\ result' = Text(to_json(args.data))
    /\ pc' = "returned"
    /\ UNCHANGED <<heap, call, args, snap, cli>>

NextValidators ==
    \/ ValidateAutoApprove \/ ValidateAllowDenyConflicts \/ ValidateSettingsSchema
    \/ ToJson

SpecValidators == InitValidators /\ [][NextValidators]_vars


(***************************************************************************)
(* Properties                                                              *)
(***************************************************************************)
Returned(f) == pc = "returned" /\ call = f

\* The returned tree.
Res == Deref(heap, result)

\* Every input tree is what it was when the call was made.
InputsUnchanged ==
    /\ Deref(heap, args.base) = snap.base
    /\ Deref(heap, args.overlay) = snap.overlay
    /\ Deref(heap, args.project) = snap.project
    /\ \A i \in 1..Len(args.stacks) : Deref(heap, args.stacks[i]) = snap.stacks[i]

\* C1: when deep_merge, merge_mcp_servers or merge_layers returns, every
\* input tree (base, overlay, each stack, project) equals its value before
\* the call.
C1_NonMutation == pc = "returned" => InputsUnchanged

C1_Witness ==
    /\ Returned("merge_layers")
    /\ Len(args.stacks) = 2
    /\ Truthy(heap, args.project)
    /\ Has(snap.base, "m")
    /\ ~SameTree(Res, snap.base)

\* C2: deep_merge(T, {k: null}) is T without k (T itself when k is absent),
\* and deep_merge(T, {m: {k: null}}), with T[m] a mapping, is T with k
\* removed from T[m] and the rest of T[m] unchanged.
C2_NullDeletes ==
    Returned("deep_merge") =>
        \A k \in Keys(snap.overlay) :
            /\ snap.overlay = PDict(<< <<k, Null>> >>)
                => SameTree(Res, Without(snap.base, k))
            /\ \A j \in {"j", "k"} :
                 ( /\ snap.overlay = PDict(<< <<k, PDict(<< <<j, Null>> >>)>> >>)
                   /\ Has(snap.base, k)
                   /\ At(snap.base, k).t = "dict" )
                 => SameTree(Res, With(snap.base, k, Without(At(snap.base, k), j)))

C2_Witness ==
    /\ Returned("deep_merge")
    /\ snap.overlay = Overlay(PDict(<< <<"k", Null>> >>))
    /\ snap.base = Doc(PDict(<< <<"j", JStr("s")>>, <<"k", JInt("2")>> >>))
    /\ Res = Doc(PDict(<< <<"j", JStr("s")>> >>))

\* The elements of xs without those equal, in value and type, to an
\* earlier element.
RECURSIVE DedupTyped(_)
DedupTyped(xs) ==
    IF xs = <<>> THEN <<>>
    ELSE LET front == SubSeq(xs, 1, Len(xs) - 1)
             last == xs[Len(xs)]
         IN  IF \E i \in 1..Len(front) : SameTree(front[i], last)
             THEN DedupTyped(front)
             ELSE Append(DedupTyped(front), last)

IsPlainArrayPair(b, o) ==
    /\ b.t = "list" /\ o.t = "list"
    /\ ~IsObjectArray(b) /\ ~IsObjectArray(o)

\* C3: when a key holds a sequence in base and in overlay and neither is an
\* object array, the merged value is base's elements followed by overlay's
\* with every later duplicate removed; duplicates agree in value and type.
C3_PrimitiveArrayMerge ==
    Returned("deep_merge") =>
        \A k \in Keys(snap.overlay) :
            (Has(snap.base, k) /\ IsPlainArrayPair(At(snap.base, k), At(snap.overlay, k)))
            => /\ Has(Res, k)
               /\ SameTree(At(Res, k),
                           PList(DedupTyped(At(snap.base, k).v \o At(snap.overlay, k).v)))


\* The elements of an object array whose key field has the value m.
WithMatcher(arr, m) ==
    {i \in 1..Len(arr.v) : Has(arr.v[i], HOOK_MERGE_KEY) /\ At(arr.v[i], HOOK_MERGE_KEY) = m}

HasHooks(e) == Has(e, "hooks") /\ At(e, "hooks").t = "list"

\* The merged array holds one element with key m, and its hooks are b's
\* followed by o's.
HooksConcatenated(merged, m, b, o) ==
    /\ Cardinality(WithMatcher(merged, m)) = 1
    /\ \A i \in WithMatcher(merged, m) :
          /\ HasHooks(merged.v[i])
          /\ At(merged.v[i], "hooks").v = At(b, "hooks").v \o At(o, "hooks").v

IsLast(I, i) == i \in I /\ \A j \in I : j <= i

ObjectArrayKeys ==
    {k \in Keys(snap.overlay) :
        /\ Has(snap.base, k)
        /\ IsObjectArray(At(snap.base, k)) /\ IsObjectArray(At(snap.overlay, k))}

Matchers == {JStr("A"), JStr("B")}

\* C4 as stated: for every base element and overlay element of two merged
\* object arrays that have the same "matcher" and both carry a "hooks"
\* sequence, the merged array has exactly one element with that key, whose
\* hooks are the base element's followed by the overlay element's.
C4_HooksOfEveryPair ==
    Returned("deep_merge") =>
        \A k \in ObjectArrayKeys : \A m \in Matchers :
            \A i \in WithMatcher(At(snap.base, k), m) :
                \A j \in WithMatcher(At(snap.overlay, k), m) :
                    (HasHooks(At(snap.base, k).v[i]) /\ HasHooks(At(snap.overlay, k).v[j]))
                    => /\ Has(Res, k)
                       /\ HooksConcatenated(At(Res, k), m, At(snap.base, k).v[i],
                                            At(snap.overlay, k).v[j])

\* C4 amended: the same, for the last base element and the last overlay
\* element that have the key.
C4_HooksOfLastPair ==
    Returned("deep_merge") =>
        \A k \in ObjectArrayKeys : \A m \in Matchers :
            \A i \in WithMatcher(At(snap.base, k), m) :
                \A j \in WithMatcher(At(snap.overlay, k), m) :
                    ( /\ IsLast(WithMatcher(At(snap.base, k), m), i)
                      /\ IsLast(WithMatcher(At(snap.overlay, k), m), j)
                      /\ HasHooks(At(snap.base, k).v[i])
                      /\ HasHooks(At(snap.overlay, k).v[j]) )
                    => /\ Has(Res, k)
                       /\ HooksConcatenated(At(Res, k), m, At(snap.base, k).v[i],
                                            At(snap.overlay, k).v[j])

C4_Witness ==
    /\ Returned("deep_merge")
    /\ snap.base = Doc(PList(<<EntryA1, EntryB>>))
    /\ snap.overlay = Overlay(PList(<<EntryA1, EntryA2>>))
    /\ Len(At(Res, "x").v) = 2
    /\ At(At(Res, "x").v[1], "hooks") = PList(<<Cmd("a1"), Cmd("a2")>>)

\* The layers in application order: base, the stacks, the project overlay.
Layers ==
    <<snap.base>> \o snap.stacks
    \o (IF snap.project = Null THEN <<>> ELSE <<snap.project>>)

LayerKeys == UNION {Keys(Layers[i]) : i \in 1..Len(Layers)}

\* The layers that set the top-level key k.
Setters(k) == {i \in 1..Len(Layers) : Has(Layers[i], k)}

\* The layers whose top-level key k reaches the merge: the "_meta" key of a
\* stack overlay is stripped.
IsStack(i) == i > 1 /\ i <= 1 + Len(snap.stacks)

EffectiveSetters(k) == {i \in Setters(k) : ~(k = "_meta" /\ IsStack(i))}

\* The last layer among S.
Last(S) == CHOOSE i \in S : \A j \in S : j <= i

\* Layer i mentions the key k inside the mapping under m.
MentionsIn(i, m, k) ==
    Has(Layers[i], m) /\ At(Layers[i], m).t = "dict" /\ Has(At(Layers[i], m), k)

\* The layers whose key k inside the mapping under m reaches the merge.
SettersIn(m, k) ==
    {i \in 1..Len(Layers) : MentionsIn(i, m, k) /\ ~(m = "_meta" /\ IsStack(i))}

\* Every layer that sets m sets it to a mapping.
AlwaysMapping(m) == \A i \in EffectiveSetters(m) : At(Layers[i], m).t = "dict"

NestedKeys == {"j", "k", "_meta"}

InRes(m, k) == Has(Res, m) /\ At(Res, m).t = "dict" /\ Has(At(Res, m), k)

\* The result gives k the value of the last layer of S when all of them
\* set a scalar, and the value of the only layer of S when that value is
\* not null.
Precedence(k, S) ==
    /\ (Cardinality(S) >= 2 /\ \A i \in S : IsScalar(At(Layers[i], k)))
       => (Has(Res, k) /\ At(Res, k) = At(Layers[Last(S)], k))
    /\ (Cardinality(S) = 1 /\ At(Layers[Last(S)], k) # Null)
       => (Has(Res, k) /\ SameTree(At(Res, k), At(Layers[Last(S)], k)))

\* The same for the key k inside the mapping under m.
PrecedenceIn(m, k, S) ==
    /\ (Cardinality(S) >= 2 /\ \A i \in S : IsScalar(At(At(Layers[i], m), k)))
       => (InRes(m, k) /\ At(At(Res, m), k) = At(At(Layers[Last(S)], m), k))
    /\ (Cardinality(S) = 1 /\ At(At(Layers[Last(S)], m), k) # Null)
       => (InRes(m, k) /\ SameTree(At(At(Res, m), k), At(At(Layers[Last(S)], m), k)))

\* C5 as stated: for every key that several layers set to a scalar, the
\* result holds the value of the last of those layers in the order base,
\* stacks, project; a key set by one layer keeps that layer's value.
C5_PrecedenceEveryKey ==
    Returned("merge_layers") => \A k \in LayerKeys : Precedence(k, Setters(k))

\* C5 amended: the same for every key, at the top level and inside a
\* mapping, but the top-level "_meta" of a stack overlay, which no merge
\* sees.
C5_PrecedenceButStackMeta ==
    Returned("merge_layers") =>
        /\ \A k \in LayerKeys :
              EffectiveSetters(k) # {} => Precedence(k, EffectiveSetters(k))
        /\ \A m \in LayerKeys : \A k \in NestedKeys :
              (AlwaysMapping(m) /\ SettersIn(m, k) # {})
              => PrecedenceIn(m, k, SettersIn(m, k))

C5_Witness ==
    /\ Returned("merge_layers")
    /\ snap.base = PDict(<< <<"a", JInt("1")>>, <<"_meta", JStr("b")>> >>)
    /\ snap.stacks = << PDict(<< <<"a", JInt("2")>> >>),
                        PDict(<< <<"m", PDict(<< <<"k", JInt("2")>> >>)>>,
                                 <<"_meta", JStr("t")>> >>) >>
    /\ snap.project = PDict(<< <<"a", JInt("3")>> >>)
    /\ At(Res, "a") = JInt("3")
    /\ At(Res, "_meta") = JStr("b")
    /\ At(At(Res, "m"), "k") = JInt("2")

\* Something has been written: an output file, or standard output.
OutputWritten ==
    \/ exists(cli.fs, "out/settings.json")
    \/ exists(cli.fs, "out/.mcp.json")
    \/ cli.stdout # <<>>

\* validate_merged has returned a non-empty list for the merged result.
ValidationFailed ==
    /\ cli.validated
    /\ validate_merged(Deref(heap, cli.merged)).raised = ""
    /\ validate_merged(Deref(heap, cli.merged)).errors # <<>>

\* C6: in every run in which validate_merged returns errors for the merged
\* result, nothing is written, neither the settings nor the MCP output, to
\* a file or to standard output, and the run ends with the exit code 1,
\* with or without --validate.
C6_ErrorsBlockOutput ==
    ValidationFailed => (~OutputWritten /\ cli.pc = "exit" /\ cli.code = 1)

\* The run asked for both outputs, without --validate, and the conflict
\* only arises from the merge of the base with a stack.
C6_Witness ==
    /\ ValidationFailed
    /\ cli.pc = "exit"
    /\ ~cli.argv.validate
    /\ cli.argv.output # "" /\ cli.argv.mcp_output # ""
    /\ cli.argv.mcp_base = "mcp.json" /\ exists(cli.fs, "mcp.json")
    /\ cli.fs[cli.argv.base] = File(CleanBase)
    /\ cli.argv.stacks = <<"s1.json">>
    /\ cli.errors = <<Conflict("Read")>>

\* C7: the tree deep_merge returns shares no container with base or
\* overlay, so a later change of the result changes neither input.
C7_NoSharedState ==
    /\ Returned("deep_merge") =>
          Reach(heap, result) \cap (Reach(heap, args.base) \cup Reach(heap, args.overlay)) = {}
    /\ (pc = "mutated" /\ call = "deep_merge") => InputsUnchanged

\* C8: a key that occurs in some layer, at the top level or inside a nested
\* mapping, is absent from merge_layers' result iff the last layer that
\* mentions it gives it null (a stack overlay's stripped "_meta" is no
\* mention).
C8_AbsentIffLastNull ==
    Returned("merge_layers") =>
        /\ \A k \in LayerKeys :
              EffectiveSetters(k) # {}
              => (~Has(Res, k) <=> At(Layers[Last(EffectiveSetters(k))], k) = Null)
        /\ \A m \in LayerKeys : \A k \in NestedKeys :
              (AlwaysMapping(m) /\ SettersIn(m, k) # {})
              => (~InRes(m, k) <=> At(At(Layers[Last(SettersIn(m, k))], m), k) = Null)

BothRegistries ==
    /\ Has(snap.base, "mcpServers") /\ At(snap.base, "mcpServers").t = "dict"
    /\ Has(snap.overlay, "mcpServers") /\ At(snap.overlay, "mcpServers").t = "dict"

BaseServers == At(snap.base, "mcpServers")

OverlayServers == At(snap.overlay, "mcpServers")

ResServers == At(Res, "mcpServers")

\* C9: when base and overlay both hold a mapping under "mcpServers", the
\* result's entry of every server the overlay maps to a non-null value is
\* the overlay's value.
C9_RegistryReplace ==
    (Returned("merge_mcp_servers") /\ BothRegistries) =>
        /\ Has(Res, "mcpServers") /\ ResServers.t = "dict"
        /\ \A n \in Keys(OverlayServers) :
              At(OverlayServers, n) # Null
              => Has(ResServers, n) /\ SameTree(At(ResServers, n), At(OverlayServers, n))

C9_Witness ==
    /\ Returned("merge_mcp_servers") /\ BothRegistries
    /\ Has(BaseServers, "x") /\ At(BaseServers, "x") = Cfg1
    /\ Has(OverlayServers, "x") /\ At(OverlayServers, "x") = Cfg2
    /\ At(ResServers, "x") = Cfg2

\* C10: when base and overlay both hold a mapping under "mcpServers", a
\* server the overlay maps to null is absent from the result's registry and
\* a base server the overlay does not name is present with its base value.
C10_RegistryNullDeletes ==
    (Returned("merge_mcp_servers") /\ BothRegistries) =>
        /\ Has(Res, "mcpServers") /\ ResServers.t = "dict"
        /\ \A n \in Keys(OverlayServers) :
              At(OverlayServers, n) = Null => ~Has(ResServers, n)
        /\ \A n \in Keys(BaseServers) \ Keys(OverlayServers) :
              Has(ResServers, n) /\ SameTree(At(ResServers, n), At(BaseServers, n))

C10_Witness ==
    /\ Returned("merge_mcp_servers") /\ BothRegistries
    /\ BaseServers = PDict(<< <<"x", Cfg1>>, <<"y", Cfg2>> >>)
    /\ OverlayServers = PDict(<< <<"y", Null>> >>)
    /\ ResServers = PDict(<< <<"x", Cfg1>> >>)

\* The rules of the auto-approve validator, as predicates of a trimmed
\* command.
IsBareDangerous(s) == s \in _DANGEROUS_BARE

IsInterpreterExec(s) ==
    \E p \in 1..Len(_INTERPRETER_EXEC_PATTERNS) : PatMatch(_INTERPRETER_EXEC_PATTERNS[p], s)

\* One error for each rule that the entry violates; none for an entry that
\* is no string.
RuleErrors(cmd) ==
    IF cmd.t # "str" THEN <<>>
    ELSE (IF IsBareDangerous(strip(cmd.v))
          THEN <<Blocked(strip(cmd.v), "is a dangerous bare command")>> ELSE <<>>)
         \o (IF IsInterpreterExec(strip(cmd.v))
             THEN <<Blocked(strip(cmd.v), "uses interpreter exec flag")>> ELSE <<>>)
         \o (IF _PIPE_TO_SHELL(strip(cmd.v))
             THEN <<Blocked(strip(cmd.v), "contains pipe-to-shell pattern")>> ELSE <<>>)

RECURSIVE Flatten(_)
Flatten(xss) == IF xss = <<>> THEN <<>> ELSE Head(xss) \o Flatten(Tail(xss))

\* C11: validate_auto_approve returns, in input order, for every string
\* command (trimmed) one error if it equals a bare dangerous name, one if
\* it matches an interpreter-with-inline-execute pattern and one if it
\* contains a pipe-into-shell pattern; two violated rules give two errors,
\* no violated rule gives none, and an entry that is no string gives none.
C11_OneErrorPerRule ==
    Returned("validate_auto_approve") =>
        /\ result.raised = ""
        /\ result.errors =
              Flatten([i \in 1..Len(args.commands) |-> RuleErrors(args.commands[i])])

C11_Witness ==
    /\ Returned("validate_auto_approve")
    /\ args.commands = <<JStr(" ruby\t-e 1 | python "), JStr(" sh\n")>>
    /\ Len(result.errors) = 3
    /\ result.errors[3] = "Auto-approve blocked: 'sh' is a dangerous bare command"

\* The strings that occur in both lists.
Shared == {x.v : x \in {a \in Elements(args.allow) : a.t = "str"} \cap Elements(args.deny)}

\* C12: validate_allow_deny_conflicts(allow, deny) returns exactly one
\* error for each distinct string that occurs in both lists by exact string
\* equality, however often it occurs in either, the errors in ascending
\* order of those strings; it returns no error when no string is shared.
C12_OneErrorPerSharedString ==
    Returned("validate_allow_deny_conflicts") =>
        /\ result.raised = ""
        /\ Len(result.errors) = Cardinality(Shared)
        /\ \A s \in Shared : \E i \in 1..Len(result.errors) : result.errors[i] = Conflict(s)
        /\ \A i, j \in 1..Len(result.errors) :
              i < j => \E a, b \in Shared :
                          /\ result.errors[i] = Conflict(a)
                          /\ result.errors[j] = Conflict(b)
                          /\ StrLess(a, b)

C12_Witness ==
    /\ Returned("validate_allow_deny_conflicts")
    /\ args.allow = <<JStr("Write"), JStr("Read")>>
    /\ args.deny = <<JStr("Read"), JStr("Write")>>
    /\ result.errors = <<Conflict("Read"), Conflict("Write")>>

\* a string that occurs twice in each list is reported once
C12_Repeated ==
    /\ Returned("validate_allow_deny_conflicts")
    /\ args.allow = <<JStr("Read"), JStr("Read")>>
    /\ args.deny = <<JStr("Read"), JStr("Read")>>
    /\ Len(result.errors) = 1

\* The commands of a hooks mapping that the validator reads.
AutoApprove_commands(hooks) ==
    IF get(hooks, "auto-approve", EmptyDict).t # "dict" THEN <<>>
    ELSE IF get(get(hooks, "auto-approve", EmptyDict), "bash_commands", EmptyList).t # "list"
    THEN <<>>
    ELSE get(get(hooks, "auto-approve", EmptyDict), "bash_commands", EmptyList).v

\* The merged settings of the run.
Merged == Deref(heap, cli.merged)

\* The commands under hooks.auto-approve.bash_commands of the merged
\* settings, where there is such a list.
AutoApproved ==
    IF get(Merged, "hooks", EmptyDict).t # "dict" THEN <<>>
    ELSE AutoApprove_commands(get(Merged, "hooks", EmptyDict))

\* The entries of permissions.allow or permissions.deny of the merged
\* settings, where there is such a list.
Permitted(field) ==
    IF get(Merged, "permissions", EmptyDict).t # "dict" THEN {}
    ELSE IF get(get(Merged, "permissions", EmptyDict), field, EmptyList).t # "list" THEN {}
    ELSE Elements(get(get(Merged, "permissions", EmptyDict), field, EmptyList).v)

\* The merged settings hold no auto-approve violation and no allow/deny
\* conflict.
NoViolation ==
    /\ \A i \in 1..Len(AutoApproved) : RuleErrors(AutoApproved[i]) = <<>>
    /\ Permitted("allow") \cap Permitted("deny") = {}

SettingsWritten ==
    IF cli.argv.output = "" THEN cli.stdout # <<>> ELSE exists(cli.fs, cli.argv.output)

\* C13: a run whose inputs load and whose merged settings hold no
\* auto-approve violation and no allow/deny conflict ends with the exit code
\* 0 and, unless it only validates, with the settings written, whatever
\* validate_settings_schema warns about.  Stated for the runs without an
\* MCP pass.
C13_WarningsNeverBlock ==
    (cli.pc = "exit" /\ cli.merged # Null /\ cli.argv.mcp_base = "" /\ NoViolation)
        => (cli.code = 0 /\ (cli.argv.validate \/ SettingsWritten))

\* item.get("matcher"): the key of an element, None when it has no such
\* field.
KeyOf(e) == get(e, HOOK_MERGE_KEY, Null)

\* The keys of the elements of an object array, in the array's order.
KeysOf(arr) == [i \in 1..Len(arr.v) |-> KeyOf(arr.v[i])]

\* The distinct keys of a sequence of keys, in the order of their first
\* occurrence.
FirstOccurrences(ks) ==
    LET firsts == {i \in 1..Len(ks) : \A j \in 1..(i - 1) : ks[j] # ks[i]}
        f[n \in 0..Len(ks)] ==
            IF n = 0 THEN <<>>
            ELSE IF n \in firsts THEN Append(f[n - 1], ks[n]) ELSE f[n - 1]
    IN  f[Len(ks)]

OnlyIn(ks, others) == SelectSeq(ks, LAMBDA k : \A i \in 1..Len(others) : others[i] # k)

RECURSIVE ValueAt(_, _)
ValueAt(tree, path) ==
    IF path = <<>> THEN tree
    ELSE IF tree.t = "dict" /\ Has(tree, Head(path))
    THEN ValueAt(At(tree, Head(path)), Tail(path))
    ELSE Missing

\* A sequence that is empty or holds only scalars.
IsPrimitiveArray(x) == x.t = "list" /\ \A i \in 1..Len(x.v) : IsScalar(x.v[i])

\* The field holds a primitive array in the base, in every stack overlay
\* and in the project overlay.
InEveryLayer(path) ==
    /\ snap.project # Null
    /\ \A i \in 1..Len(Layers) : IsPrimitiveArray(ValueAt(Layers[i], path))

\* The arrays of the layers in I, one after the other, in application
\* order.
RECURSIVE Accumulated(_, _, _)
Accumulated(path, I, i) ==
    IF i > Len(Layers) THEN <<>>
    ELSE (IF i \in I THEN ValueAt(Layers[i], path).v ELSE <<>>)
         \o Accumulated(path, I, i + 1)

\* The layers whose value at the path reaches the merge: the top-level
\* "_meta" key of a stack overlay is stripped.
Contributing(path) ==
    {i \in 1..Len(Layers) : ~(Head(path) = "_meta" /\ IsStack(i))}

C16_IdentityMerge ==
    /\ (Returned("deep_merge") /\ snap.overlay = PDict(<<>>)) => SameTree(Res, snap.base)
    /\ (Returned("merge_layers") /\ snap.stacks = <<>> /\ snap.project = Null)
          => SameTree(Res, snap.base)

\* deep_merge of a tree that holds a null and a nested mapping with {}
C16_Witness ==
    /\ Returned("deep_merge")
    /\ snap.overlay = PDict(<<>>)
    /\ snap.base = Doc(PDict(<< <<"m", PDict(<< <<"k", Null>>, <<"j", JInt("3")>> >>)>> >>))
    /\ Res = snap.base

\* merge_layers of a tree that holds an object array with no overlay
C16_LayersWitness ==
    /\ Returned("merge_layers")
    /\ snap.stacks = <<>> /\ snap.project = Null
    /\ snap.base = Doc(PList(<<EntryA1, EntryA2>>))
    /\ Res = snap.base

\* The keys of base and overlay whose overlay value is not null and whose
\* values are neither both mappings nor both sequences.
MismatchKeys ==
    {k \in Keys(snap.overlay) \cap Keys(snap.base) :
        /\ At(snap.overlay, k) # Null
        /\ ~(At(snap.base, k).t = "dict" /\ At(snap.overlay, k).t = "dict")
        /\ ~(At(snap.base, k).t = "list" /\ At(snap.overlay, k).t = "list")}

\* C17: for a key of base and overlay whose overlay value is not null, when
\* the two values are not both mappings and not both sequences, the merged
\* value equals the overlay's value and nothing of the base value remains.
C17_OverlayWins ==
    Returned("deep_merge") =>
        \A k \in MismatchKeys : Has(Res, k) /\ SameTree(At(Res, k), At(snap.overlay, k))

\* a mapping replaced by a sequence
C17_Witness ==
    /\ Returned("deep_merge")
    /\ snap.base = Doc(PDict(<< <<"j", JStr("s")>>, <<"k", JInt("2")>> >>))
    /\ snap.overlay = Overlay(PList(<<JInt("1"), JInt("1")>>))
    /\ "x" \in MismatchKeys
    /\ At(Res, "x") = PList(<<JInt("1"), JInt("1")>>)

\* a scalar replaced by a scalar of another type
C17_ScalarWitness ==
    /\ Returned("deep_merge")
    /\ snap.base = Doc(JInt("1"))
    /\ snap.overlay = Overlay(JFloat("1.0"))
    /\ At(Res, "x") = JFloat("1.0")

\* The keys that hold an empty sequence on one side and an object array on
\* the other.
EmptyAgainstObjects ==
    {k \in Keys(snap.overlay) \cap Keys(snap.base) :
        \/ At(snap.base, k) = PList(<<>>) /\ IsObjectArray(At(snap.overlay, k))
        \/ IsObjectArray(At(snap.base, k)) /\ At(snap.overlay, k) = PList(<<>>)}

\* The side that is not empty.
NonEmptySide(k) ==
    IF At(snap.base, k) = PList(<<>>) THEN At(snap.overlay, k) ELSE At(snap.base, k)

\* The last element of the array that has the key.
LastWith(arr, key) ==
    arr.v[CHOOSE i \in 1..Len(arr.v) :
            /\ KeyOf(arr.v[i]) = key
            /\ \A j \in (i + 1)..Len(arr.v) : KeyOf(arr.v[j]) # key]

\* One element per distinct key, in the order in which the keys first
\* occur: the last element with that key.
Collapsed(arr) ==
    [i \in 1..Len(FirstOccurrences(KeysOf(arr))) |->
        LastWith(arr, FirstOccurrences(KeysOf(arr))[i])]

C18_CollapseWitness ==
    /\ Returned("deep_merge")
    /\ snap.base = Doc(PList(<<EntryN2, EntryN1>>))
    /\ snap.overlay = Overlay(PList(<<>>))
    /\ At(Res, "x") = PList(<<EntryN1>>)

\* What deep_merge returns for the base and the overlay of the call.
DeepMergeOf(l) == deep_merge(l.h, l.v[1], l.v[2])

TreeOf(r) == Deref(r.h, r.v)

Standard == TreeOf(DeepMergeOf(LoadAll(<<>>, <<snap.base, snap.overlay>>, 1, <<>>)))

\* The two trees agree on the key: both lack it, or both hold equal values.
Agree(a, b, k) ==
    /\ Has(a, k) <=> Has(b, k)
    /\ Has(a, k) => SameTree(At(a, k), At(b, k))

\* C19: merge_mcp_servers(base, overlay) gives every top-level key other
\* than "mcpServers" the value that deep_merge(base, overlay) gives it, and
\* gives "mcpServers" the value deep_merge gives it whenever base and overlay
\* do not both hold a mapping under it.
C19_AgreesWithDeepMerge ==
    Returned("merge_mcp_servers") =>
        \E std \in {Standard} :
            \A k \in Keys(Res) \cup Keys(std) :
                (k # "mcpServers" \/ ~BothRegistries) => Agree(Res, std, k)

\* What merge_layers returns for a base, stacks and a project.
MergeLayersOf(l) == merge_layers(l.h, l.v[1], SubSeq(l.v, 3, Len(l.v)), l.v[2])

LayersResult(b, ss, p) == TreeOf(MergeLayersOf(LoadAll(<<>>, <<b, p>> \o ss, 1, <<>>)))

\* The stacks of the call without their top-level "_meta" keys.
StrippedStacks == [i \in 1..Len(snap.stacks) |-> Without(snap.stacks[i], "_meta")]

\* The tree with every key "_meta", at every depth, renamed to a key that no
\* layer uses.
RECURSIVE Renamed(_)
Renamed(tree) ==
    IF tree.t = "dict"
    THEN PDict([i \in 1..Len(tree.v) |->
                   <<IF tree.v[i][1] = "_meta" THEN "y" ELSE tree.v[i][1],
                     Renamed(tree.v[i][2])>>])
    ELSE IF tree.t = "list" THEN PList([i \in 1..Len(tree.v) |-> Renamed(tree.v[i])])
    ELSE tree

\* C20: the top-level "_meta" key of a stack overlay has no effect on
\* merge_layers' result, whatever its value: the result equals the result
\* for the stacks without that key.  Every other "_meta" key, nested or in
\* base or project, is merged like any other key: renaming all of them in
\* the layers renames them in the result and changes nothing else.
C20_StackMetaStripped ==
    Returned("merge_layers") =>
        /\ SameTree(Res, LayersResult(snap.base, StrippedStacks, snap.project))
        /\ SameTree(Renamed(Res),
                    LayersResult(Renamed(snap.base),
                                 [i \in 1..Len(snap.stacks) |-> Renamed(StrippedStacks[i])],
                                 Renamed(snap.project)))

\* One stack with "_meta": null, one with a "_meta" string, one with a
\* nested "_meta"; the base's "_meta" is kept, the nested one arrives.
C20_Witness ==
    /\ Returned("merge_layers")
    /\ snap.base = PDict(<< <<"a", JInt("1")>>, <<"_meta", JStr("b")>> >>)
    /\ snap.stacks = << PDict(<< <<"a", Null>>, <<"_meta", Null>> >>),
                        PDict(<< <<"m", PDict(<< <<"k", Null>>,
                                                <<"_meta", JStr("n")>> >>)>> >>) >>
    /\ snap.project = Null
    /\ Res = PDict(<< <<"_meta", JStr("b")>>,
                      <<"m", PDict(<< <<"k", Null>>, <<"_meta", JStr("n")>> >>)>> >>)

\* a stack's "_meta" string does not replace the base's
C20_StringWitness ==
    /\ Returned("merge_layers")
    /\ snap.base = PDict(<< <<"a", JInt("1")>>, <<"_meta", JStr("b")>> >>)
    /\ snap.stacks = << PDict(<< <<"m", PDict(<< <<"k", JInt("2")>> >>)>>,
                                 <<"_meta", JStr("t")>> >>) >>
    /\ At(Res, "_meta") = JStr("b")

\* The string starts with the prefix.
StartsWith(s, prefix) == Len(s) >= Len(prefix) /\ SubSeq(s, 1, Len(prefix)) = prefix

\* The keys of a mapping, in its order, that satisfy the test.
KeysWhere(tree, Test(_)) ==
    SelectSeq([i \in 1..Len(tree.v) |-> tree.v[i][1]], Test)

\* The top-level keys outside the allow-list.
UnknownTopLevel ==
    KeysWhere(args.merged, LAMBDA k : k \notin KNOWN_TOP_LEVEL_KEYS)

\* The keys of the hooks mapping that are neither a known event type nor
\* "auto-approve".
UnknownEvents ==
    IF get(args.merged, "hooks", Null).t # "dict" THEN <<>>
    ELSE KeysWhere(At(args.merged, "hooks"),
                   LAMBDA k : k \notin HOOKS_KNOWN_EVENT_TYPES \cup {"auto-approve"})

\* The value under the key is missing or has the type.
Shaped(tree, k, type) == Has(tree, k) => At(tree, k).t = type

\* Every entry of every event of the hooks mapping has only known fields
\* and, where it has "hooks", a list under it.
EntriesRecognised(hooks) ==
    \A i \in 1..Len(hooks.v) :
        (hooks.v[i][1] # "auto-approve" /\ hooks.v[i][2].t = "list") =>
            \A j \in 1..Len(hooks.v[i][2].v) :
                hooks.v[i][2].v[j].t = "dict" =>
                    /\ Keys(hooks.v[i][2].v[j]) \subseteq HOOK_ENTRY_KNOWN_FIELDS
                    /\ Shaped(hooks.v[i][2].v[j], "hooks", "list")

\* Every key, event, entry field and permissions field is recognised, and
\* 'hooks' (the mapping, and the field of an entry), 'permissions', 'env',
\* 'permissions.allow' and 'permissions.deny' have their expected shapes.
Recognised ==
    /\ UnknownTopLevel = <<>> /\ UnknownEvents = <<>>
    /\ Shaped(args.merged, "hooks", "dict")
    /\ Shaped(args.merged, "permissions", "dict")
    /\ Shaped(args.merged, "env", "dict")
    /\ Has(args.merged, "hooks") => EntriesRecognised(At(args.merged, "hooks"))
    /\ Has(args.merged, "permissions") =>
          /\ Keys(At(args.merged, "permissions")) \subseteq PERMISSIONS_KNOWN_FIELDS
          /\ Shaped(At(args.merged, "permissions"), "allow", "list")
          /\ Shaped(At(args.merged, "permissions"), "deny", "list")

\* C21: validate_settings_schema returns one warning for each top-level key
\* outside the allow-list and one for each key of the 'hooks' mapping that
\* is neither a known event type nor "auto-approve"; it returns an empty
\* list when every key, event, entry field and permissions field is
\* recognised and the values have their expected shapes; it raises for no
\* mapping.
C21_SchemaWarnings ==
    Returned("validate_settings_schema") =>
        /\ result.raised = ""
        /\ SelectSeq(result.errors, LAMBDA w : StartsWith(w, "Unknown top-level key: "))
             = [i \in 1..Len(UnknownTopLevel) |->
                  "Unknown top-level key: '" \o UnknownTopLevel[i] \o "' (possible typo)"]
        /\ Len(SelectSeq(result.errors,
                         LAMBDA w : StartsWith(w, "Unknown hook event type: ")))
             = Len(UnknownEvents)
        /\ \A i \in 1..Len(UnknownEvents) :
              \E j \in 1..Len(result.errors) :
                  StartsWith(result.errors[j],
                             "Unknown hook event type: '" \o UnknownEvents[i] \o "' ")
        /\ Recognised => result.errors = <<>>

\* two unknown top-level keys, two unknown events, and 'env' of a wrong type
C21_Witness ==
    /\ Returned("validate_settings_schema")
    /\ UnknownTopLevel = <<"typo", "bogus">>
    /\ UnknownEvents = <<"Bogus", "pretooluse">>
    /\ ~Has(args.merged, "permissions")
    /\ get(args.merged, "env", Null) = JInt("1")
    /\ Len(result.errors) = 5

\* a document with known keys, events and fields only gets no warning
C21_CleanWitness ==
    /\ Returned("validate_settings_schema")
    /\ Recognised
    /\ Has(args.merged, "sandbox")
    /\ Has(args.merged, "hooks") /\ Has(At(args.merged, "hooks"), "PreToolUse")
    /\ Has(args.merged, "permissions") /\ Has(At(args.merged, "permissions"), "allow")
    /\ Has(args.merged, "env")
    /\ result.errors = <<>>

\* The tree with the items of every mapping, at every level, in the
\* opposite order of insertion.
RECURSIVE KeysReversed(_)
KeysReversed(tree) ==
    IF tree.t = "dict"
    THEN PDict([i \in 1..Len(tree.v) |->
                   <<tree.v[Len(tree.v) + 1 - i][1],
                     KeysReversed(tree.v[Len(tree.v) + 1 - i][2])>>])
    ELSE IF tree.t = "list" THEN PList([i \in 1..Len(tree.v) |-> KeysReversed(tree.v[i])])
    ELSE tree

\* The tree with the elements of every sequence, at every level, in the
\* opposite order.
RECURSIVE ElementsReversed(_)
ElementsReversed(tree) ==
    IF tree.t = "dict"
    THEN PDict([i \in 1..Len(tree.v) |-> <<tree.v[i][1], ElementsReversed(tree.v[i][2])>>])
    ELSE IF tree.t = "list"
    THEN PList([i \in 1..Len(tree.v) |-> ElementsReversed(tree.v[Len(tree.v) + 1 - i])])
    ELSE tree

\* C22: to_json emits the keys of every mapping in sorted order at every
\* nesting level, also inside sequences, and keeps every sequence in its
\* order: the text is the rendering of the tree with all keys in sorted
\* order; a tree that differs only in the insertion order of keys gives the
\* same text, a tree with a sequence in another order gives another text;
\* the text ends in a single newline.
C22_DeterministicJson ==
    Returned("to_json") =>
        /\ result.v = Dumps(Canon(args.data), 0) \o "\n"
        /\ to_json(KeysReversed(args.data)) = result.v
        /\ ~SameTree(ElementsReversed(args.data), args.data)
              => to_json(ElementsReversed(args.data)) # result.v
        /\ SubSeq(result.v, Len(result.v), Len(result.v)) = "\n"
        /\ SubSeq(result.v, Len(result.v) - 1, Len(result.v) - 1) # "\n"

\* keys inserted against their sorted order, on two levels and inside a
\* sequence
C22_Witness ==
    /\ Returned("to_json")
    /\ args.data = PDict(<< <<"a", PList(<<D21, PList(<<>>), D12>>)>>,
                            <<"PreToolUse", D21>> >>)
    /\ KeysReversed(args.data) # args.data
    /\ result.v = to_json(PDict(<< <<"PreToolUse", D12>>,
                                   <<"a", PList(<<D12, PList(<<>>), D12>>)>> >>))

\* What deep_merge returns for two trees.
DeepMerged(b, o) == TreeOf(DeepMergeOf(LoadAll(<<>>, <<b, o>>, 1, <<>>)))

\* The keys that occur in both arrays.
SharedKeys(base, overlay) ==
    {KeyOf(base.v[i]) : i \in 1..Len(base.v)}
    \cap {KeyOf(overlay.v[i]) : i \in 1..Len(overlay.v)}

\* C23: when two keyed elements b and o with the same key are merged, every
\* field other than "hooks" gets the value that deep_merge(b, o) gives that
\* field: a field that o gives as null is deleted, primitive arrays are
\* concatenated and deduplicated.
C23_ElementFieldsStandard ==
    Returned("deep_merge") =>
        \A k \in ObjectArrayKeys :
            \A m \in SharedKeys(At(snap.base, k), At(snap.overlay, k)) :
                \E std \in {DeepMerged(LastWith(At(snap.base, k), m),
                                       LastWith(At(snap.overlay, k), m))} :
                    \A f \in (Keys(LastWith(At(Res, k), m)) \cup Keys(std)) \ {"hooks"} :
                        Agree(LastWith(At(Res, k), m), std, f)

\* The elements of the array that lack the key field.
Keyless(arr) == SelectSeq(arr.v, LAMBDA e : ~Has(e, HOOK_MERGE_KEY))

\* The entries of the "hooks" lists of the elements, in order.
HooksEntries(elements) ==
    Flatten([i \in 1..Len(elements) |->
                IF HasHooks(elements[i]) THEN At(elements[i], "hooks").v ELSE <<>>])

\* xs can be obtained from ys by leaving elements out.
RECURSIVE IsSubsequence(_, _)
IsSubsequence(xs, ys) ==
    IF xs = <<>> THEN TRUE
    ELSE IF ys = <<>> THEN FALSE
    ELSE IF Head(xs) = Head(ys) THEN IsSubsequence(Tail(xs), Tail(ys))
    ELSE IsSubsequence(xs, Tail(ys))

\* C24: when object arrays are merged, every entry of the "hooks" list of
\* every element without the key field, of the base array and of the
\* overlay array, appears in the merged array, the base's entries before
\* the overlay's, for any number of such elements on either side.
C24_KeylessHooksPreserved ==
    Returned("deep_merge") =>
        \A k \in ObjectArrayKeys :
            IsSubsequence(HooksEntries(Keyless(At(snap.base, k)))
                              \o HooksEntries(Keyless(At(snap.overlay, k))),
                          HooksEntries(At(Res, k).v))

\* Some key value occurs more than once in the array.
HasDuplicateKeys(arr) == Len(FirstOccurrences(KeysOf(arr))) < Len(arr.v)

\* The indices of the elements of the array that have the key value.
WithKey(arr, key) == {i \in 1..Len(arr.v) : KeyOf(arr.v[i]) = key}

\* The keys that hold object arrays on both sides, one of them with a
\* repeated key value.
DuplicateKeyArrays ==
    {k \in ObjectArrayKeys :
        HasDuplicateKeys(At(snap.base, k)) \/ HasDuplicateKeys(At(snap.overlay, k))}

Overlays == snap.stacks \o (IF snap.project = Null THEN <<>> ELSE <<snap.project>>)

\* The call applies to a tree that holds the path an overlay that sets the
\* path to null and then an overlay that sets it to v.
DeletesThenAdds(path, v) ==
    /\ ValueAt(snap.base, path) # Missing
    /\ Overlays = <<Holding(path, Null), Holding(path, v)>>

\* deep_merge has applied an overlay that sets the path to null: applying
\* an overlay that sets the path to v gives a tree that holds v there.
ReaddByDeepMerge(path) ==
    (ValueAt(snap.base, path) # Missing /\ snap.overlay = Holding(path, Null))
    => \A v \in NewValues :
          SameTree(ValueAt(DeepMerged(Res, Holding(path, v)), path), v)

C26_DeepMergeWitness ==
    /\ Returned("deep_merge")
    /\ snap.base = ReaddTree(<<"x">>, PList(<<EntryA1>>))
    /\ snap.overlay = Holding(<<"x">>, Null)
    /\ ~Has(Res, "x")

\* the project overlay sets the top-level "_meta" after a stack has set it
\* to null: the arrays of the base and of the project are merged
C26_MetaWitness ==
    /\ Returned("merge_layers")
    /\ DeletesThenAdds(<<"_meta">>, PList(<<JInt("2"), JInt("1")>>))
    /\ snap.project # Null
    /\ ValueAt(snap.base, <<"_meta">>) = PList(<<JInt("1"), JInt("1")>>)
    /\ ValueAt(Res, <<"_meta">>) = PList(<<JInt("1"), JInt("2")>>)

\* The input files named on the command line.
NamedInputs ==
    ({cli.argv.base, cli.argv.project, cli.argv.mcp_base} \ {""})
    \cup Elements(cli.argv.stacks)

\* validate_merged has returned the empty list for the merged result.
ValidationPassed ==
    /\ cli.validated
    /\ validate_merged(Merged).raised = ""
    /\ validate_merged(Merged).errors = <<>>

\* Neither output file exists, and nothing but the line that reports a
\* valid merge is on standard output.
NoOutputEffect ==
    /\ ~exists(cli.fs, "out/settings.json")
    /\ ~exists(cli.fs, "out/.mcp.json")
    /\ \A i \in 1..Len(cli.stdout) : cli.stdout[i] = "Valid: all inputs merge cleanly\n"

\* C27: in every run with --validate no settings file and no MCP file is
\* created or modified and no merged JSON is printed, whichever of --output,
\* --mcp-base and --mcp-output are given, and the run exits 0 exactly when
\* all input files exist and validate_merged returns no error.
C27_ValidateOnlyNoOutput ==
    cli.argv.validate =>
        /\ NoOutputEffect
        /\ cli.pc = "exit" =>
              (cli.code = 0 <=>
                  ((\A path \in NamedInputs : exists(cli.fs, path)) /\ ValidationPassed))

\* C28: in every run that ends with an exit code other than 0 (a missing
\* base, stack, project or MCP base file, or validation errors) nothing has
\* been written, neither the settings nor the MCP output, to a file or to
\* standard output.
C28_FailedRunsWriteNothing ==
    (cli.pc = "exit" /\ cli.code # 0) => ~OutputWritten

\* No two elements of the array have the same value of the key field, the
\* absence of the field counting as one value.
DistinctKeys(arr) ==
    \A i, j \in 1..Len(arr.v) : KeyOf(arr.v[i]) = KeyOf(arr.v[j]) => i = j

\* lines 337-341: the keys for which deep_merge calls _merge_object_arrays
MergedAsObjects ==
    {k \in Keys(snap.overlay) \cap Keys(snap.base) :
        /\ At(snap.base, k).t = "list" /\ At(snap.overlay, k).t = "list"
        /\ IsObjectArray(At(snap.base, k)) \/ IsObjectArray(At(snap.overlay, k))}

\* Every layer holds a sequence in "x", one of them an object array, and
\* at least one overlay is merged into the base.
KeyedLayers ==
    /\ Len(Layers) >= 2
    /\ \A i \in 1..Len(Layers) :
          Has(Layers[i], "x") /\ At(Layers[i], "x") \in KeyedArrays
    /\ \E i \in 1..Len(Layers) : IsObjectArray(At(Layers[i], "x"))

RECURSIVE Plain(_)
Plain(tree) ==
    IF tree.t = "dict" THEN \A i \in 1..Len(tree.v) : Plain(tree.v[i][2])
    ELSE IF tree.t = "list" THEN IsPrimitiveArray(tree)
    ELSE TRUE

\* C30: for every base and overlay built only from mappings, scalars, nulls
\* and primitive arrays, merging the overlay into deep_merge's result once
\* more gives a tree structurally equal to the result, and merge_layers
\* gives the same result for a stack overlay listed twice as for the
\* overlay listed once.
C30_ReapplyIdempotent ==
    /\ (Returned("deep_merge") /\ Plain(snap.base) /\ Plain(snap.overlay)) =>
          SameTree(DeepMerged(Res, snap.overlay), Res)
    /\ ( /\ Returned("merge_layers")
         /\ Len(snap.stacks) = 2 /\ snap.stacks[1] = snap.stacks[2]
         /\ \A i \in 1..Len(Layers) : Plain(Layers[i]) ) =>
          SameTree(Res, LayersResult(snap.base, <<snap.stacks[1]>>, snap.project))

====
